---- MODULE Spec2Model ----
(***************************************************************************)
(* Model of the filmy recommendation backend: the MLflow model registry    *)
(* and the promotion step of train(), the process-wide MODEL_CACHE with    *)
(* its startup load and daily watcher thread, the construction of a        *)
(* RecommendationService by a request, the ALS re-ranking function, the    *)
(* recommendation functions, the movie routes and the Qdrant collection,   *)
(* the preparation and evaluation of the training data, the feedback       *)
(* route, and the delay the watcher computes from the clock.               *)
(***************************************************************************)
EXTENDS Integers, Sequences, FiniteSets, TLC

\* ------------------------------------------------------------------ bounds
\* Number of model versions the registry may come to hold.
MaxVersion == 3

\* Training runs that may exist (train() is started by the Prefect flow).
MaxRuns == 2
Runs == 1..MaxRuns

\* Evaluation results in hundredths (0.30 is 30): the values of the
\* promote_if_better example of the specification.
PrecisionValues == {30, 32}
RecallValues == {15, 20}

\* Catalog item ids 1..MaxItem and user ids 1..MaxUser of the re-ranking calls.
MaxItem == 3
MaxUser == 2
Items == 1..MaxItem
UserIds == 1..MaxUser

\* Longest candidate list passed to _rerank_with_implicit.
MaxCands == 3

\* Rows the factor matrices are drawn from.
ItemRows == {<<0, 1>>, <<1, 0>>, <<1, 1>>}
UserRows == {<<1, 0>>, <<1, 2>>}

\* Python's None, outside every id and every metric of the model.
None == -1

\* The vector size _ensure_collection expects of the collection.
VectorSize == 768

\* Largest `limit` argument of a recommendation method.
MaxLimit == 2

\* Most feedback rows a user has when the query window is examined.
MaxHistory == 11

\* Genre names, popularity values and release years of the catalog.
Genres == {"Action", "Drama"}
Popularities == {1, 2}
Years == {1995, 2005}

\* Catalog ids 1..MaxCatalog of the recent-activity calls, and the similarity
\* scores the vector search gives there (cosine similarities in tenths).
MaxCatalog == 4
Scores == {-3, -2, -1}

VARIABLES
    \* ---- MLflow registry (filmy_implicit_model)
    versions,      \* version numbers that exist in the registry
    nextVersion,   \* the number the next registered version gets
    stageTag,      \* versions carrying the tag stage = 'production'
    runMetrics,    \* version -> <<precision_at_10, recall_at_10>> of its run
    \* ---- train(), one record of locals per run
    tpc,           \* position of each run in train()
    tlocal,        \* locals of each run: p10, r10, latest, prod_version, prod_p10, prod_r10
    prodBefore,    \* history: the production-tagged versions when each run started
    \* ---- serving process (main.py, model_state.py)
    proc,          \* "down", "loading" (lifespan startup), "serving", "failed"
    MODEL_CACHE,   \* the module-level dict of model_state.py
    lpc,           \* position of each caller of load_model()
    lstep,         \* number of MODEL_CACHE entries the call has assigned
    loaded,        \* the run id load_latest_production_model() returned to the call
    lerr,          \* the exception a call of load_model() ended with
    wpc,           \* model_watcher_thread: "off", "sleeping", "woke", "dead"
    werr,          \* the exception that ended the watcher thread
    \* ---- a request constructing RecommendationService
    rstep,         \* number of MODEL_CACHE entries __init__ has read
    svc,           \* the attributes of the service object
    \* ---- a call of RecommendationService._rerank_with_implicit
    artifacts,     \* contents of the dataset map and factor matrices the service holds
    rr,            \* the call: user_id, candidate_ids, its position, its result, the matrices it read
    \* ---- MLflow stages
    archived,      \* versions whose stage was set to "Archived"
    \* ---- Postgres
    movies,        \* table movies: id -> row, for the ids that exist
    rowOrder,      \* the ids of movies in the order a query without ORDER BY lists them
    feedbacks,     \* table user_feedback: per user the rows, most recently updated first
    preferences,   \* users.genre_preferences: per user the genres stored
    \* ---- Qdrant collection "movies"
    index,         \* point id -> payload, for the points that exist
    ix,            \* a call that writes the collection: its batch, position and error
    \* ---- a call of a recommendation method of the service
    call,          \* the method, its arguments, its position and its result
    \* ---- Qdrant collection "movies": its configuration
    collection,    \* whether it exists, its vector size and its distance metric
    ec,            \* a call of Qdrant._ensure_collection: the state it found, its position
    \* ---- a call of Qdrant.search_similar
    sq,            \* its arguments, its position, the queries it sent to the store
    \* ---- data preparation and evaluation of a training run
    prep,          \* the function called, its position and what it built
    \* ---- requests of POST /feedbacks
    fbreq,         \* per request: its body, its position, the row it found
    \* ---- the watcher's clock
    clock          \* the current Europe/Paris time and the delay computed from it

regVars == <<versions, nextVersion, stageTag, runMetrics>>
trainVars == <<tpc, tlocal, prodBefore>>
loadVars == <<MODEL_CACHE, lpc, lstep, loaded, lerr>>
srvVars == <<proc, loadVars, wpc, werr>>
reqVars == <<rstep, svc>>
rrVars == <<artifacts, rr>>
dbVars == <<movies, rowOrder, feedbacks, preferences>>
dataVars == <<archived, dbVars, index, ix, call>>
auxVars == <<collection, ec, sq, prep, fbreq, clock>>
vars == <<regVars, trainVars, srvVars, reqVars, rrVars, dataVars, auxVars>>

\* ------------------------------------------------------------- registry
NoLocals == [p10 |-> None, r10 |-> None, registered |-> None, latest |-> None,
             prod_version |-> None, prod_p10 |-> None, prod_r10 |-> None]

MaxOf(S) == CHOOSE m \in S : \A x \in S : x <= m

\* client.search_model_versions("... tags.stage='production'"): the versions
\* tagged production; versions[0] is whichever of them the registry lists first.
ProductionVersions == stageTag \cap versions

\* is_better with the two tests joined by `or`: one improved metric suffices.
is_better_either(new_p10, new_r10, old_p10, old_r10) ==
    IF old_p10 = None \/ old_r10 = None
    THEN TRUE
    ELSE (new_p10 > old_p10) \/ (new_r10 >= old_r10)

\* is_better(new_p10, new_r10, old_p10, old_r10)
is_better(new_p10, new_r10, old_p10, old_r10) ==
    IF old_p10 = None \/ old_r10 = None
    THEN TRUE
    ELSE (new_p10 > old_p10) /\ (new_r10 >= old_r10)

\* ------------------------------------------------------------- train()
\* train(), lines 97-125: inside the MLflow run the model is fit and
\* evaluated, and the run holds its metrics p10, r10.  (The run is followed
\* from line 97 on.  Before it, line 84 calls build_dataset_map(feedbacks)
\* without the db argument the helper's signature requires.)  When `exclusive`, runs never overlap: they
\* are the successive runs of one flow, the run numbered 1.
TrainFit(r, exclusive) ==
    /\ tpc[r] = "idle"
    /\ exclusive => r = 1
    /\ nextVersion + Cardinality({q \in Runs : tpc[q] = "fitted"}) <= MaxVersion
    /\ \E p \in PrecisionValues, rc \in RecallValues :
          tlocal' = [tlocal EXCEPT ![r] = [NoLocals EXCEPT !.p10 = p, !.r10 = rc]]
    /\ tpc' = [tpc EXCEPT ![r] = "fitted"]
    /\ prodBefore' = [prodBefore EXCEPT ![r] = ProductionVersions]
    /\ UNCHANGED <<auxVars, regVars, srvVars, reqVars, rrVars, dataVars>>

\* mlflow.log_metric + mlflow.pyfunc.log_model(registered_model_name=...):
\* the registry gets a new version whose run carries the metrics;
\* `registered` keeps the number of the version, which belongs to run_id.
TrainRegister(r) ==
    /\ tpc[r] = "fitted"
    /\ versions' = versions \cup {nextVersion}
    /\ runMetrics' = [runMetrics EXCEPT ![nextVersion] = <<tlocal[r].p10, tlocal[r].r10>>]
    /\ nextVersion' = nextVersion + 1
    /\ tlocal' = [tlocal EXCEPT ![r].registered = nextVersion]
    /\ tpc' = [tpc EXCEPT ![r] = "registered"]
    /\ UNCHANGED <<auxVars, stageTag, prodBefore, srvVars, reqVars, rrVars, dataVars>>

\* latest = max(versions, key=lambda v: int(v.version))
TrainLatest(r) ==
    /\ tpc[r] = "registered"
    /\ tlocal' = [tlocal EXCEPT ![r].latest = MaxOf(versions)]
    /\ tpc' = [tpc EXCEPT ![r] = "latest"]
    /\ UNCHANGED <<auxVars, prodBefore, regVars, srvVars, reqVars, rrVars, dataVars>>

\* prod_version, prod_p10, prod_r10 = get_current_production_metrics()
\* followed by the test is_better(p10, r10, prod_p10, prod_r10).
TrainCompare(r) ==
    /\ tpc[r] = "latest"
    /\ \E pv \in (IF ProductionVersions = {} THEN {None} ELSE ProductionVersions) :
         LET pp == IF pv = None THEN None ELSE runMetrics[pv][1]
             pr == IF pv = None THEN None ELSE runMetrics[pv][2]
         IN /\ tlocal' = [tlocal EXCEPT ![r].prod_version = pv,
                                        ![r].prod_p10 = pp,
                                        ![r].prod_r10 = pr]
            /\ tpc' = [tpc EXCEPT ![r] =
                         IF is_better(tlocal[r].p10, tlocal[r].r10, pp, pr)
                         THEN "promote" ELSE "skipped"]
    /\ UNCHANGED <<auxVars, prodBefore, regVars, srvVars, reqVars, rrVars, dataVars>>

\* client.set_model_version_tag(version=latest.version, key="stage", value="production")
\* The registry refuses a tag on a version that was deleted meanwhile.
TrainSetTag(r) ==
    /\ tpc[r] = "promote"
    /\ IF tlocal[r].latest \in versions
       THEN /\ stageTag' = stageTag \cup {tlocal[r].latest}
            /\ tpc' = [tpc EXCEPT ![r] =
                         IF tlocal[r].prod_version # None THEN "untag" ELSE "promoted"]
       ELSE /\ stageTag' = stageTag
            /\ tpc' = [tpc EXCEPT ![r] = "raised"]
    /\ UNCHANGED <<auxVars, versions, nextVersion, runMetrics, tlocal, prodBefore, srvVars, reqVars, rrVars, dataVars>>

\* if prod_version: client.delete_model_version_tag(version=prod_version.version, key="stage")
TrainDeleteTag(r) ==
    /\ tpc[r] = "untag"
    /\ IF tlocal[r].prod_version \in versions
       THEN /\ stageTag' = stageTag \ {tlocal[r].prod_version}
            /\ tpc' = [tpc EXCEPT ![r] = "promoted"]
       ELSE /\ stageTag' = stageTag
            /\ tpc' = [tpc EXCEPT ![r] = "raised"]
    /\ UNCHANGED <<auxVars, versions, nextVersion, runMetrics, tlocal, prodBefore, srvVars, reqVars, rrVars, dataVars>>

\* train() returns run_id, or the exception of a registry call leaves it.
TrainReturn(r) ==
    /\ tpc[r] \in {"promoted", "skipped", "raised"}
    /\ tpc' = [tpc EXCEPT ![r] = "idle"]
    /\ tlocal' = [tlocal EXCEPT ![r] = NoLocals]
    /\ prodBefore' = [prodBefore EXCEPT ![r] = {}]
    /\ UNCHANGED <<auxVars, regVars, srvVars, reqVars, rrVars, dataVars>>

\* A step of train() raises (the database, the fit, or a call of the MLflow
\* client fails): train() has no try/except, the exception leaves it with
\* the registry as the steps before have made it.
TrainFail(r, exclusive) ==
    /\ tpc[r] \in {"idle", "fitted", "registered", "latest", "promote", "untag"}
    /\ tpc[r] = "idle" => (exclusive => r = 1)
    /\ tpc' = [tpc EXCEPT ![r] = "raised"]
    /\ prodBefore' = [prodBefore EXCEPT ![r] =
                         IF tpc[r] = "idle" THEN ProductionVersions ELSE prodBefore[r]]
    /\ UNCHANGED <<auxVars, regVars, tlocal, srvVars, reqVars, rrVars, dataVars>>

TrainStep(r, exclusive) ==
    \/ TrainFit(r, exclusive)
    \/ TrainRegister(r)
    \/ TrainLatest(r)
    \/ TrainCompare(r)
    \/ TrainSetTag(r)
    \/ TrainDeleteTag(r)
    \/ TrainReturn(r)

\* ------------------------------------------------- model_state.py, main.py
\* The keys of MODEL_CACHE in the order load_model() assigns them.
CacheKeys == <<"implicit_model", "dataset_map", "item_factors", "user_factors", "model_version">>

\* MODEL_CACHE as the module defines it: every entry None.
EmptyCache == [k \in {CacheKeys[i] : i \in 1..Len(CacheKeys)} |-> None]

\* The threads that may be inside load_model().
Callers == {"lifespan", "refresh"}

\* load_latest_production_model(): the outcomes of one call.  No version is
\* tagged production: the 4-tuple (None, None, None, None).  Otherwise
\* versions[0] of the search is loaded and the 5-tuple ending in its run id
\* is returned, or mlflow.pyfunc.load_model raises.
LoaderOutcomes ==
    IF ProductionVersions = {}
    THEN {[kind |-> "tuple4", run_id |-> None]}
    ELSE {[kind |-> "tuple5", run_id |-> v] : v \in ProductionVersions}
         \cup {[kind |-> "raise", run_id |-> None]}

\* load_model() with a loader that answers a missing production version by
\* five Nones: the call unpacks them and goes on to assign the cache.
LoadFetch_FiveNones(c) ==
    /\ lpc[c] = "call"
    /\ \E o \in LoaderOutcomes :
         /\ lpc' = [lpc EXCEPT ![c] = IF o.kind = "raise" THEN "raised" ELSE "write"]
         /\ loaded' = [loaded EXCEPT ![c] = o.run_id]
         /\ lerr' = [lerr EXCEPT ![c] = IF o.kind = "raise" THEN "MlflowException" ELSE "none"]
    /\ lstep' = [lstep EXCEPT ![c] = 0]
    /\ UNCHANGED <<auxVars, regVars, trainVars, proc, MODEL_CACHE, wpc, werr, reqVars, rrVars, dataVars>>

\* load_model(), line 19: the call of the loader and the unpacking of its
\* result into five names.  A 4-tuple does not unpack (ValueError).
LoadFetch(c) ==
    /\ lpc[c] = "call"
    /\ \E o \in LoaderOutcomes :
         /\ lpc' = [lpc EXCEPT ![c] = IF o.kind = "tuple5" THEN "write" ELSE "raised"]
         /\ loaded' = [loaded EXCEPT ![c] = o.run_id]
         /\ lerr' = [lerr EXCEPT ![c] =
                       CASE o.kind = "tuple5" -> "none"
                         [] o.kind = "tuple4" -> "ValueError"
                         [] OTHER -> "MlflowException"]
    /\ lstep' = [lstep EXCEPT ![c] = 0]
    /\ UNCHANGED <<auxVars, regVars, trainVars, proc, MODEL_CACHE, wpc, werr, reqVars, rrVars, dataVars>>

\* load_model(), lines 21-27: one assignment MODEL_CACHE[key] = value per
\* step, in program order; every artifact is the one of the loaded version.
LoadWrite(c) ==
    /\ lpc[c] = "write"
    /\ lstep[c] < Len(CacheKeys)
    /\ MODEL_CACHE' = [MODEL_CACHE EXCEPT ![CacheKeys[lstep[c] + 1]] = loaded[c]]
    /\ lstep' = [lstep EXCEPT ![c] = lstep[c] + 1]
    /\ lpc' = [lpc EXCEPT ![c] = IF lstep[c] + 1 = Len(CacheKeys) THEN "ret" ELSE "write"]
    /\ UNCHANGED <<auxVars, regVars, trainVars, proc, loaded, lerr, wpc, werr, reqVars, rrVars, dataVars>>

\* lifespan(): startup begins with load_model().
LifespanStart ==
    /\ proc = "down"
    /\ proc' = "loading"
    /\ lpc' = [lpc EXCEPT !["lifespan"] = "call"]
    /\ UNCHANGED <<auxVars, regVars, trainVars, MODEL_CACHE, lstep, loaded, lerr, wpc, werr, reqVars, rrVars, dataVars>>

\* lifespan(): load_model() returned; the watcher thread is started and the
\* application begins to serve.
LifespanServe ==
    /\ proc = "loading"
    /\ lpc["lifespan"] = "ret"
    /\ lpc' = [lpc EXCEPT !["lifespan"] = "idle"]
    /\ lstep' = [lstep EXCEPT !["lifespan"] = 0]
    /\ loaded' = [loaded EXCEPT !["lifespan"] = None]
    /\ wpc' = "sleeping"
    /\ proc' = "serving"
    /\ UNCHANGED <<auxVars, regVars, trainVars, MODEL_CACHE, lerr, werr, reqVars, rrVars, dataVars>>

\* lifespan(): load_model() raised; nothing catches it, startup fails.
LifespanRaise ==
    /\ proc = "loading"
    /\ lpc["lifespan"] = "raised"
    /\ proc' = "failed"
    /\ UNCHANGED <<auxVars, regVars, trainVars, loadVars, wpc, werr, reqVars, rrVars, dataVars>>

\* model_watcher_thread(), lines 51-54: time.sleep(seconds_until_next_4am()) returns.
WatcherWake ==
    /\ proc = "serving"
    /\ wpc = "sleeping"
    /\ wpc' = "woke"
    /\ UNCHANGED <<auxVars, regVars, trainVars, proc, loadVars, werr, reqVars, rrVars, dataVars>>

\* A watcher that unpacks the loader's result and calls load_model() at every
\* tick, whatever version the cache holds, then sleeps again.
WatcherTick_AlwaysReload ==
    /\ wpc = "woke"
    /\ lpc["refresh"] = "idle"
    /\ lpc' = [lpc EXCEPT !["refresh"] = "call"]
    /\ wpc' = "sleeping"
    /\ UNCHANGED <<auxVars, regVars, trainVars, proc, MODEL_CACHE, lstep, loaded, lerr, werr, reqVars, rrVars, dataVars>>

\* model_watcher_thread(), lines 57-58: the loader's result is unpacked into
\* four names.  A 5-tuple does not unpack (ValueError); the 4-tuple of Nones
\* unpacks and new_model._model_impl fails on None (AttributeError); an
\* exception of the loader propagates.  Nothing in the loop catches any of
\* them, so the thread ends and lines 60-64 are not reached.
WatcherTick ==
    /\ wpc = "woke"
    /\ \E o \in LoaderOutcomes :
         werr' = CASE o.kind = "tuple5" -> "ValueError"
                   [] o.kind = "tuple4" -> "AttributeError"
                   [] OTHER -> "MlflowException"
    /\ wpc' = "dead"
    /\ UNCHANGED <<auxVars, regVars, trainVars, proc, loadVars, reqVars, rrVars, dataVars>>

\* A thread of the serving process calls load_model() to refresh the cache
\* while requests are served (the call the watcher loop makes at line 62).
RefreshCall ==
    /\ proc = "serving"
    /\ lpc["refresh"] = "idle"
    /\ lpc' = [lpc EXCEPT !["refresh"] = "call"]
    /\ UNCHANGED <<auxVars, regVars, trainVars, proc, MODEL_CACHE, lstep, loaded, lerr, wpc, werr, reqVars, rrVars, dataVars>>

\* The refreshing call of load_model() returned or raised.
RefreshEnd ==
    /\ lpc["refresh"] \in {"ret", "raised"}
    /\ lpc' = [lpc EXCEPT !["refresh"] = "idle"]
    /\ lstep' = [lstep EXCEPT !["refresh"] = 0]
    /\ loaded' = [loaded EXCEPT !["refresh"] = None]
    /\ lerr' = [lerr EXCEPT !["refresh"] = "none"]
    /\ UNCHANGED <<auxVars, regVars, trainVars, proc, MODEL_CACHE, wpc, werr, reqVars, rrVars, dataVars>>

\* ------------------------------------------------------ model_registery.py
\* The keep_last highest version numbers of S.
RECURSIVE Newest(_, _)
Newest(S, n) ==
    IF n = 0 \/ S = {} THEN {} ELSE {MaxOf(S)} \cup Newest(S \ {MaxOf(S)}, n - 1)

\* keep_last arguments tried.
KeepLastValues == {1, 2}

\* delete_model_versions(model_name, keep_last): every version after the
\* keep_last newest is deleted, with its tags.
DeleteModelVersions ==
    /\ \E keep_last \in KeepLastValues :
         /\ Cardinality(versions) > keep_last
         /\ versions' = Newest(versions, keep_last)
         /\ stageTag' = stageTag \cap Newest(versions, keep_last)
    /\ UNCHANGED <<auxVars, nextVersion, runMetrics, trainVars, srvVars, reqVars, rrVars, dataVars>>

\* archive_old_versions(model_name, keep_last): every version after the
\* keep_last newest is moved to the stage "Archived"; its tags stay.
ArchiveOldVersions ==
    /\ \E keep_last \in KeepLastValues :
         /\ Cardinality(versions) > keep_last
         /\ archived' = archived \cup (versions \ Newest(versions, keep_last))
    /\ UNCHANGED <<auxVars, regVars, trainVars, srvVars, reqVars, rrVars, dbVars, index, ix, call>>

\* The versions in stage "Archived".
ArchivedVersions == archived \cap versions

\* ---------------------------------------- RecommendationService.__init__
\* The attributes __init__ fills from MODEL_CACHE, in program order.
ServiceKeys == <<"implicit_model", "dataset_map", "item_factors", "user_factors">>

NoService == [k \in {ServiceKeys[i] : i \in 1..Len(ServiceKeys)} |-> None]

\* One MODEL_CACHE.get(key) of __init__ (lines 26-29), for a request that
\* the serving application received.
ServiceInitRead ==
    /\ proc = "serving"
    /\ rstep < Len(ServiceKeys)
    /\ svc' = [svc EXCEPT ![ServiceKeys[rstep + 1]] = MODEL_CACHE[ServiceKeys[rstep + 1]]]
    /\ rstep' = rstep + 1
    /\ UNCHANGED <<auxVars, regVars, trainVars, srvVars, rrVars, dataVars>>

\* The route answers with the service it constructed; the next request
\* constructs a new one.
RequestReturn ==
    /\ rstep = Len(ServiceKeys)
    /\ rstep' = 0
    /\ svc' = NoService
    /\ UNCHANGED <<auxVars, regVars, trainVars, srvVars, rrVars, dataVars>>

\* ------------------------------- RecommendationService._rerank_with_implicit
Range(f) == {f[x] : x \in DOMAIN f}

\* {id: i for i, id in enumerate(sorted(ids))}: the dense 0-based index of
\* build_dataset_map.
DenseIndex(S) == [x \in S |-> Cardinality({y \in S : y < x})]

\* numpy dot of two rows.
RECURSIVE DotUpTo(_, _, _)
DotUpTo(a, b, n) == IF n = 0 THEN 0 ELSE a[n] * b[n] + DotUpTo(a, b, n - 1)

Dot(a, b) == DotUpTo(a, b, Len(a))

\* np.argsort(-scores): the orders (as sequences of 1-based positions) that
\* list the scores from highest to lowest; equal scores may come in any order.
ArgsortDescending(scores) ==
    LET n == Len(scores)
    IN {o \in [1..n -> 1..n] :
          /\ \A i, j \in 1..n : i # j => o[i] # o[j]
          /\ \A i, j \in 1..n : i < j => scores[o[i]] >= scores[o[j]]}

\* The loop of lines 50-58: item_map[cid] is appended to indices for the
\* candidates the item map has; cid is appended to mapped in both branches.
RerankIndices(candidate_ids, item_map) ==
    LET InMap(cid) == cid \in DOMAIN item_map
        present == SelectSeq(candidate_ids, InMap)
    IN [i \in 1..Len(present) |-> item_map[present[i]]]

RerankMapped(candidate_ids, item_map) ==
    LET Either(cid) == cid \in DOMAIN item_map \/ cid \notin DOMAIN item_map
    IN SelectSeq(candidate_ids, Either)

\* The candidates ordered by `o` and the rest appended, lines 66-69.
RerankAssemble(candidate_ids, mapped, o) ==
    LET ordered == [i \in 1..Len(o) |-> mapped[o[i]]]
        NotOrdered(cid) == cid \notin Range(ordered)
    IN ordered \o SelectSeq(candidate_ids, NotOrdered)

\* _rerank_with_implicit without the test of line 43: a user the user map
\* does not have is scored with the first row of the user factors.
RerankResults_NoUserGuard(held, art, user_id, candidate_ids) ==
    IF held["implicit_model"] = None \/ held["dataset_map"] = None
    THEN {candidate_ids}
    ELSE
      LET uidx == IF user_id \in DOMAIN art.user_map THEN art.user_map[user_id] ELSE 0
          user_vec == art.user_factors[uidx + 1]
          indices == RerankIndices(candidate_ids, art.item_map)
          mapped == RerankMapped(candidate_ids, art.item_map)
      IN IF indices = <<>>
         THEN {candidate_ids}
         ELSE
           LET scores == [i \in 1..Len(indices) |->
                             Dot(art.item_factors[indices[i] + 1], user_vec)]
           IN {RerankAssemble(candidate_ids, mapped, o) : o \in ArgsortDescending(scores)}

\* The factor matrices a call of _rerank_with_implicit indexes: none on the
\* two early returns of lines 36-44, the user factors at line 47, the item
\* factors at line 63.
RerankReads(held, art, user_id, candidate_ids) ==
    IF held["implicit_model"] = None \/ held["dataset_map"] = None
    THEN {}
    ELSE IF user_id \notin DOMAIN art.user_map
    THEN {}
    ELSE IF RerankIndices(candidate_ids, art.item_map) = <<>>
    THEN {"user_factors"}
    ELSE {"user_factors", "item_factors"}

\* The lists _rerank_with_implicit(user_id, candidate_ids) can return for a
\* service holding `held` (the attributes) whose artifacts contain `art`.
RerankResults(held, art, user_id, candidate_ids) ==
    IF held["implicit_model"] = None \/ held["dataset_map"] = None
    THEN {candidate_ids}
    ELSE IF user_id \notin DOMAIN art.user_map
    THEN {candidate_ids}
    ELSE
      LET uidx == art.user_map[user_id]
          user_vec == art.user_factors[uidx + 1]
          indices == RerankIndices(candidate_ids, art.item_map)
          mapped == RerankMapped(candidate_ids, art.item_map)
      IN IF indices = <<>>
         THEN {candidate_ids}
         ELSE
           LET scores == [i \in 1..Len(indices) |->
                             Dot(art.item_factors[indices[i] + 1], user_vec)]
               Ordered(o) == [i \in 1..Len(o) |-> mapped[o[i]]]
               Unmapped(o) ==
                   LET NotOrdered(cid) == cid \notin Range(Ordered(o))
                   IN SelectSeq(candidate_ids, NotOrdered)
           IN {Ordered(o) \o Unmapped(o) : o \in ArgsortDescending(scores)}

\* One call of _rerank_with_implicit by the constructed service.
Rerank ==
    /\ rr.pc = "call"
    /\ \E out \in RerankResults(svc, artifacts, rr.user_id, rr.candidate_ids) :
         rr' = [rr EXCEPT !.pc = "done", !.out = out,
                          !.reads = RerankReads(svc, artifacts, rr.user_id, rr.candidate_ids)]
    /\ UNCHANGED <<auxVars, regVars, trainVars, srvVars, reqVars, artifacts, dataVars>>

\* ------------------------------------------------- Postgres and Qdrant reads
Min(a, b) == IF a <= b THEN a ELSE b

\* seq[:n]
Take(seq, n) == SubSeq(seq, 1, Min(n, Len(seq)))

\* The sequences of k distinct elements of S.
DistinctSeqs(S, k) == {q \in [1..k -> S] : \A i, j \in 1..k : i # j => q[i] # q[j]}

\* CRUDManager.list_all(skip=0, limit): query(model).offset(0).limit(limit).all().
\* The query has no ORDER BY: the rows come in the order the table lists them.
list_all(limit) == Take(rowOrder, limit)

\* MovieHandler.get_by_id(id) finds a row.
get_by_id(id) == id \in DOMAIN movies

\* UserFeedbackHandler.get_user_feedbacks(user_id): the user's rows, ordered
\* by updated_at descending.
get_user_feedbacks(user_id) == feedbacks[user_id]

\* The filters argument of search_similar when none is passed.
NoFilters == [genres |-> {}, gte |-> None, lte |-> None]

\* The query_filter search_similar builds (lines 128-164): MatchAny on the
\* payload field genres, which holds the item's genre string (it matches
\* when the string is one of the requested names), and Range on release_year,
\* where a bound of None is no bound.
MatchesFilter(payload, filters) ==
    /\ filters.genres # {} => \E g \in filters.genres : payload.genres = {g}
    /\ filters.gte # None => payload.release_year >= filters.gte
    /\ filters.lte # None => payload.release_year <= filters.lte

\* Qdrant.search_similar(movie_vector, top, filters): the results one call
\* can give, as the payload ids from best to worst score: at most `top` of
\* the points that pass the filter, in whatever order the vector scores them.
search_similar(top, filters) ==
    LET M == {p \in DOMAIN index : MatchesFilter(index[p], filters)}
    IN DistinctSeqs(M, Min(top, Cardinality(M)))

\* sorted(seq, key=lambda m: key[m], reverse=True): descending by key, equal
\* keys in their original order.
RECURSIVE SortedDescending(_, _)
SortedDescending(seq, key) ==
    IF seq = <<>> THEN <<>>
    ELSE LET n == Len(seq)
             x == seq[n]
             front == SortedDescending(SubSeq(seq, 1, n - 1), key)
             k == Cardinality({i \in 1..Len(front) : key[front[i]] >= key[x]})
         IN SubSeq(front, 1, k) \o <<x>> \o SubSeq(front, k + 1, Len(front))

\* ------------------------------------------------ recommend_for_cold_start
\* recommend_for_cold_start(user_id, limit): the lists (of movie ids) a call
\* can return.  Without stored preferences the first `limit` rows of
\* list_all(limit=limit*3); with preferences the results of the vector
\* search that exist and carry a preferred genre, sorted by popularity.
recommend_for_cold_start(user_id, limit) ==
    IF preferences[user_id] = {}
    THEN {Take(list_all(limit * 3), limit)}
    ELSE LET Keep(id) == /\ get_by_id(id)
                         /\ movies[id].genres \cap preferences[user_id] # {}
             popularity == [id \in DOMAIN movies |-> movies[id].popularity]
         IN {Take(SortedDescending(SelectSeq(results, Keep), popularity), limit) :
                results \in search_similar(limit * 50, NoFilters)}

\* One call of recommend_for_cold_start.
ColdStart ==
    /\ call.fn = "cold_start" /\ call.pc = "call"
    /\ \E out \in recommend_for_cold_start(call.user_id, call.limit) :
         call' = [call EXCEPT !.pc = "done", !.out = out, !.path = "cold_start"]
    /\ UNCHANGED <<auxVars, regVars, trainVars, srvVars, reqVars, rrVars, archived, dbVars, index, ix>>

\* --------------------------------------------- personalized_recommendations
\* feedbacks[-10:]
RecentWindow == 10

LastN(seq, n) == SubSeq(seq, Len(seq) - Min(n, Len(seq)) + 1, Len(seq))

\* Lines 175-189: the ranked candidates without the watched ones, padded
\* from list_all with unwatched items not yet in the list, cut to `limit`;
\* ids without a row are left out of the response.
PersonalizedFinish(ranked, fbs, limit) ==
    LET watched == {fbs[i].movie_id : i \in 1..Len(fbs)}
        NotWatched(mid) == mid \notin watched
        final_ids == SelectSeq(ranked, NotWatched)
        Popular(mid) == mid \notin watched /\ mid \notin Range(final_ids)
        popular_ids == SelectSeq(list_all(limit * 50), Popular)
        padded == IF Len(final_ids) < limit
                  THEN final_ids \o Take(popular_ids, limit - Len(final_ids))
                  ELSE final_ids
    IN SelectSeq(Take(padded, limit), get_by_id)

\* Lines 150-157: the movies whose texts make up the query, those of
\* feedbacks[-10:] that have a row.
PersonalizedQuery(fbs) ==
    LET recent == LastN(fbs, RecentWindow)
    IN SelectSeq([i \in 1..Len(recent) |-> recent[i].movie_id], get_by_id)

\* Lines 147-173: the candidate pool and its re-ranking.
PersonalizedPath(held, art, user_id, limit, fbs) ==
    LET has_texts == PersonalizedQuery(fbs) # <<>>
        pools == IF has_texts
                 THEN search_similar(limit * 200, NoFilters)
                 ELSE {list_all(limit * 200)}
        ColdStarts == {[out |-> o, path |-> "cold_start", query |-> <<>>] :
                          o \in recommend_for_cold_start(user_id, limit)}
    IN UNION {IF candidate_ids = <<>>
              THEN ColdStarts
              ELSE {[out |-> PersonalizedFinish(ranked, fbs, limit), path |-> "personalized",
                     query |-> PersonalizedQuery(fbs)] :
                       ranked \in RerankResults(held, art, user_id, candidate_ids)} :
              candidate_ids \in pools}

\* personalized_recommendations without the test of line 135: a user without
\* feedback rows goes on to the model.
personalized_recommendations_NoFeedbackTest(held, art, user_id, limit) ==
    LET fbs == get_user_feedbacks(user_id)
        ColdStarts == {[out |-> o, path |-> "cold_start", query |-> <<>>] :
                          o \in recommend_for_cold_start(user_id, limit)}
    IN IF held["implicit_model"] = None \/ held["dataset_map"] = None
       THEN ColdStarts
       ELSE IF user_id \notin DOMAIN art.user_map
       THEN ColdStarts
       ELSE PersonalizedPath(held, art, user_id, limit, fbs)

\* personalized_recommendations without the cut of line 186 and with a
\* padding that does not look at the feedback rows.
personalized_recommendations_Unfiltered(held, art, user_id, limit) ==
    LET fbs == get_user_feedbacks(user_id)
        ColdStarts == {[out |-> o, path |-> "cold_start", query |-> <<>>] :
                          o \in recommend_for_cold_start(user_id, limit)}
    IN IF fbs = <<>> THEN ColdStarts
       ELSE IF held["implicit_model"] = None \/ held["dataset_map"] = None
       THEN ColdStarts
       ELSE IF user_id \notin DOMAIN art.user_map
       THEN ColdStarts
       ELSE {[out |-> SelectSeq(ranked, get_by_id), path |-> "personalized",
              query |-> PersonalizedQuery(fbs)] :
                ranked \in UNION {RerankResults(held, art, user_id, c) :
                                     c \in search_similar(limit * 200, NoFilters) \ {<<>>}}}
            \cup (IF <<>> \in search_similar(limit * 200, NoFilters) THEN ColdStarts ELSE {})

\* personalized_recommendations(user_id, limit): the results a call can
\* give, each with the path that produced it.
personalized_recommendations(held, art, user_id, limit) ==
    LET fbs == get_user_feedbacks(user_id)
        ColdStarts == {[out |-> o, path |-> "cold_start", query |-> <<>>] :
                          o \in recommend_for_cold_start(user_id, limit)}
    IN IF fbs = <<>> THEN ColdStarts
       ELSE IF held["implicit_model"] = None \/ held["dataset_map"] = None
       THEN ColdStarts
       ELSE IF user_id \notin DOMAIN art.user_map
       THEN ColdStarts
       ELSE PersonalizedPath(held, art, user_id, limit, fbs)

\* One call of personalized_recommendations by the constructed service.
Personalized ==
    /\ call.fn = "personalized" /\ call.pc = "call"
    /\ \E res \in personalized_recommendations(svc, artifacts, call.user_id, call.limit) :
         call' = [call EXCEPT !.pc = "done", !.out = res.out, !.path = res.path,
                              !.query = res.query]
    /\ UNCHANGED <<auxVars, regVars, trainVars, srvVars, reqVars, rrVars, archived, dbVars, index, ix>>

\* ------------------------------- recommendations_based_on_recent_activity
\* search_similar(movie_vector, top) with the score of each result: `top`
\* points at most, from best to worst score.
search_similar_scored(top) ==
    LET n == Min(top, Cardinality(DOMAIN index))
    IN {r \in [1..n -> [id : DOMAIN index, score : Scores]] :
          /\ \A i, j \in 1..n : i # j => r[i].id # r[j].id
          /\ \A i, j \in 1..n : i < j => r[i].score >= r[j].score}

\* The rows of the query of lines 197-203: the user's "watched" rows, most
\* recent first, last_n at most.
RecentWatched(user_id, last_n) ==
    LET Watched(fb) == fb.status = "watched"
    IN Take(SelectSeq(feedbacks[user_id], Watched), last_n)

\* The ids in the order the dict candidate_scores received them: the
\* results of the queries one after the other, each id once.
RECURSIVE FirstSeen(_)
FirstSeen(ids) ==
    IF ids = <<>> THEN <<>>
    ELSE LET front == FirstSeen(SubSeq(ids, 1, Len(ids) - 1))
             x == ids[Len(ids)]
         IN IF x \in Range(front) THEN front ELSE Append(front, x)

RECURSIVE Flatten(_)
Flatten(seqs) == IF seqs = <<>> THEN <<>> ELSE seqs[1] \o Flatten(Tail(seqs))

\* candidate_scores[mid] after the loop of lines 208-224:
\* max(candidate_scores.get(mid, 0.0), r["score"]) over the results for mid,
\* so the running maximum starts from 0.0.
MergedScore(received, mid) ==
    LET all == Flatten(received)
        got == {all[i].score : i \in {j \in 1..Len(all) : all[j].id = mid}}
    IN MaxOf(got \cup {0})

\* Lines 226-231 for the query results `received`.
RecentFinish(received, user_id, limit) ==
    LET all == Flatten(received)
        seen == FirstSeen([i \in 1..Len(all) |-> all[i].id])
        fbs == get_user_feedbacks(user_id)
        watched == {fbs[i].movie_id : i \in 1..Len(fbs)}
        NotWatched(mid) == mid \notin watched
        candidates == SelectSeq(seen, NotWatched)
        score == [mid \in Range(seen) |-> MergedScore(received, mid)]
        top == Take(SortedDescending(candidates, score), limit)
    IN SelectSeq(top, get_by_id)

\* The results of the searches of one call: one per recent row whose movie
\* exists.
RECURSIVE ReceivedChoices(_, _)
ReceivedChoices(rows, top) ==
    IF rows = <<>> THEN {<<>>}
    ELSE LET rest == ReceivedChoices(Tail(rows), top)
         IN IF get_by_id(rows[1].movie_id)
            THEN {<<r>> \o q : r \in search_similar_scored(top), q \in rest}
            ELSE rest

\* recommendations_based_on_recent_activity(user_id, limit, last_n): the
\* results a call can give, each with the search results it received.
recommendations_based_on_recent_activity(user_id, limit, last_n) ==
    LET fb_q == RecentWatched(user_id, last_n)
    IN IF fb_q = <<>>
       THEN {[out |-> <<>>, received |-> <<>>]}
       ELSE {[out |-> RecentFinish(received, user_id, limit), received |-> received] :
                received \in ReceivedChoices(fb_q, limit * 2)}

\* One call of recommendations_based_on_recent_activity.
RecentActivity ==
    /\ call.fn = "recent" /\ call.pc = "call"
    /\ \E res \in recommendations_based_on_recent_activity(call.user_id, call.limit, call.last_n) :
         call' = [call EXCEPT !.pc = "done", !.out = res.out, !.received = res.received]
    /\ UNCHANGED <<auxVars, regVars, trainVars, srvVars, reqVars, rrVars, archived, dbVars, index, ix>>

\* ------------------------------------------------- search_recommendations
\* guest_recommendations(examples=examples, limit), lines 99-124.  The
\* example titles are given by the ids of the movies that carry them: the
\* results of the unfiltered vector search (top = limit * 2) that are not
\* examples themselves and have a row, cut to `limit`.
guest_recommendations(examples, limit) ==
    LET NotExample(id) == id \notin examples
    IN {Take(SelectSeq(SelectSeq(qres, NotExample), get_by_id), limit) :
           qres \in search_similar(limit * 2, NoFilters)}

\* Lines 245-257: the entries of q_filters for the genres and the year range
\* (`if year_min or year_max`).
SearchFilters(genres, year_min, year_max) ==
    [genres |-> genres,
     gte |-> IF year_min # None \/ year_max # None THEN year_min ELSE None,
     lte |-> IF year_min # None \/ year_max # None THEN year_max ELSE None]

\* search_recommendations(user_id, query_movies, genres, languages=None,
\* year_min, year_max, limit): the lists a call can return.  With example
\* titles the candidates are those of guest_recommendations; without, those
\* of the vector search under q_filters.
search_recommendations(held, art, user_id, query_movies, genres, year_min, year_max, limit) ==
    LET q_filters == SearchFilters(genres, year_min, year_max)
        raw_results == IF query_movies # {}
                       THEN guest_recommendations(query_movies, limit * 40)
                       ELSE search_similar(limit * 40, q_filters)
        fbs == IF user_id # None THEN get_user_feedbacks(user_id) ELSE <<>>
        watched == {fbs[i].movie_id : i \in 1..Len(fbs)}
        NotWatched(mid) == mid \notin watched
        Ranked(candidate_ids) ==
            IF user_id # None /\ held["implicit_model"] # None
            THEN RerankResults(held, art, user_id, candidate_ids)
            ELSE {candidate_ids}
    IN UNION {{SelectSeq(Take(SelectSeq(ranked_ids, NotWatched), limit), get_by_id) :
                  ranked_ids \in Ranked(candidate_ids)} :
              candidate_ids \in raw_results}

\* One call of search_recommendations by the constructed service.
Search ==
    /\ call.fn = "search" /\ call.pc = "call"
    /\ \E out \in search_recommendations(svc, artifacts, call.user_id, call.query_movies,
                                          call.genres, call.year_min, call.year_max, call.limit) :
         call' = [call EXCEPT !.pc = "done", !.out = out]
    /\ UNCHANGED <<auxVars, regVars, trainVars, srvVars, reqVars, rrVars, archived, dbVars, index, ix>>

\* ------------------------------------------- routes/movies.py and the index
\* Versions of an item's text fields (title, overview, genres, ...).
TextVersions == {1, 2}

MovieRow(t) == [genres |-> {"Action"}, popularity |-> 1, release_year |-> 2005, text |-> t]

\* The point embed_and_index writes for a row (lines 53-66).
PointOf(row) == [genres |-> row.genres, release_year |-> row.release_year, text |-> row.text]

\* No call of a recommendation method, or of a write of the index, is under way.
NoCall == [fn |-> "none", pc |-> "none"]

\* The serial primary key: a new row gets the next id above those in use.
NewIds ==
    LET free == {id \in Items : \A m \in DOMAIN movies \cup DOMAIN index : id > m}
    IN {id \in free : \A m \in free : id <= m}

\* The function f with x added or replaced by v.
Put(f, x, v) == [y \in DOMAIN f \cup {x} |-> IF y = x THEN v ELSE f[y]]

\* The function f without x.
Drop(f, x) == [y \in DOMAIN f \ {x} |-> f[y]]

\* POST /movies, create_or_update_movie: a row with the tmdb_id exists and
\* is updated, or a new row is created (MovieHandler.update / .create).
\* The handler commits the row and returns.
CreateOrUpdateMovie ==
    \/ \E id \in DOMAIN movies, t \in TextVersions :
          /\ movies' = Put(movies, id, MovieRow(t))
          /\ UNCHANGED rowOrder
    \/ \E id \in NewIds, t \in TextVersions :
          /\ movies' = Put(movies, id, MovieRow(t))
          /\ rowOrder' = Append(rowOrder, id)

CreateOrUpdateMovieRoute ==
    /\ CreateOrUpdateMovie
    /\ UNCHANGED <<auxVars, regVars, trainVars, srvVars, reqVars, rrVars, archived, feedbacks,
                   preferences, index, ix, call>>

\* PATCH /movies/{movie_id}, update_movie: MovieHandler.update sets the
\* fields passed and commits.
UpdateMovie ==
    /\ \E id \in DOMAIN movies, t \in TextVersions :
          /\ movies[id].text # t
          /\ movies' = Put(movies, id, MovieRow(t))
    /\ UNCHANGED <<auxVars, regVars, trainVars, srvVars, reqVars, rrVars, archived, rowOrder, feedbacks,
                   preferences, index, ix, call>>

\* DELETE /movies/{movie_id}, delete_movie: MovieHandler.delete removes the
\* row (and, by the cascade of the relationship, its feedback rows).
DeleteMovie ==
    /\ \E id \in DOMAIN movies :
          LET NotId(m) == m # id
              NotOnId(fb) == fb.movie_id # id
          IN /\ movies' = Drop(movies, id)
             /\ rowOrder' = SelectSeq(rowOrder, NotId)
             /\ feedbacks' = [u \in UserIds |-> SelectSeq(feedbacks[u], NotOnId)]
    /\ UNCHANGED <<auxVars, regVars, trainVars, srvVars, reqVars, rrVars, archived,
                   preferences, index, ix, call>>

\* The records of a batch that the write of the index does not accept (a
\* field that cannot be embedded or serialised, a point Qdrant rejects).
BadRecords(batch) == SUBSET batch

\* run_daily_ingest, steps 6-8: upsert_into_postgres(df_new) inserts the new
\* rows and updates the rows already there, fetch_movies_by_tmdb_ids reads
\* them back, and embed_and_index is called with them.
IngestUpsert ==
    /\ ix.pc = "none"
    /\ \E known \in SUBSET DOMAIN movies, fresh \in {{}} \cup {{id} : id \in NewIds}, t \in TextVersions :
          /\ known \cup fresh # {}
          /\ movies' = [id \in DOMAIN movies \cup fresh |->
                           IF id \in known \cup fresh THEN MovieRow(t) ELSE movies[id]]
          /\ rowOrder' = IF fresh = {} THEN rowOrder
                          ELSE Append(rowOrder, CHOOSE id \in fresh : TRUE)
          /\ \E bad \in BadRecords(known \cup fresh) :
                ix' = [fn |-> "embed_and_index", pc |-> "call",
                       batch |-> known \cup fresh, bad |-> bad]
    /\ UNCHANGED <<auxVars, regVars, trainVars, srvVars, reqVars, rrVars, archived, feedbacks,
                   preferences, index, call>>

\* embed_and_index(df_new), lines 45-70: the points of all rows are built
\* and written by the one call qdrant.upsert(points=points).  A record the
\* call does not accept makes it raise, and no point of the batch is written.
EmbedAndIndex ==
    /\ ix.fn = "embed_and_index" /\ ix.pc = "call"
    /\ IF ix.bad = {}
       THEN /\ index' = [id \in DOMAIN index \cup (ix.batch \cap DOMAIN movies) |->
                            IF id \in ix.batch \cap DOMAIN movies
                            THEN PointOf(movies[id]) ELSE index[id]]
            /\ ix' = [ix EXCEPT !.pc = "done"]
       ELSE /\ index' = index
            /\ ix' = [ix EXCEPT !.pc = "raised"]
    /\ UNCHANGED <<auxVars, regVars, trainVars, srvVars, reqVars, rrVars, archived, dbVars, call>>

\* A caller hands rows of the table to Qdrant.upsert_movies(movies).
UpsertMoviesCall ==
    /\ ix.pc = "none"
    /\ \E batch \in (SUBSET DOMAIN movies) \ {{}} : \E bad \in BadRecords(batch) :
          ix' = [fn |-> "upsert_movies", pc |-> "call", batch |-> batch, bad |-> bad]
    /\ UNCHANGED <<auxVars, regVars, trainVars, srvVars, reqVars, rrVars, archived, dbVars, index, call>>

\* Qdrant.upsert_movies(movies), lines 74-96: the loop builds the embedding
\* and the payload of every record, then the one call client.upsert writes
\* all points.  An exception for one record, in the loop or in the call,
\* leaves the method before any point is written; nothing catches it.
UpsertMovies ==
    /\ ix.fn = "upsert_movies" /\ ix.pc = "call"
    /\ IF ix.bad = {}
       THEN /\ index' = [id \in DOMAIN index \cup (ix.batch \cap DOMAIN movies) |->
                            IF id \in ix.batch \cap DOMAIN movies
                            THEN PointOf(movies[id]) ELSE index[id]]
            /\ ix' = [ix EXCEPT !.pc = "done"]
       ELSE /\ index' = index
            /\ ix' = [ix EXCEPT !.pc = "raised"]
    /\ UNCHANGED <<auxVars, regVars, trainVars, srvVars, reqVars, rrVars, archived, dbVars, call>>

\* The call that wrote the index has returned or raised.
IndexReturn ==
    /\ ix.pc \in {"done", "raised"}
    /\ ix' = NoCall
    /\ UNCHANGED <<auxVars, regVars, trainVars, srvVars, reqVars, rrVars, archived, dbVars, index, call>>

\* ---------------------------------------------- configuration of the collection
\* Vector sizes and distance metrics of a collection found in the store.
VectorSizes == {384, VectorSize}
Distances == {"Cosine", "Euclid"}

NoCollection == [exists |-> FALSE, size |-> None, distance |-> "none"]

\* create_collection(size=768, distance=COSINE) of _ensure_collection.
CreatedCollection == [exists |-> TRUE, size |-> VectorSize, distance |-> "Cosine"]

\* Qdrant._ensure_collection: get_collection raises for an absent collection
\* and the handler creates it; a collection whose vector size is not 768 is
\* deleted, with its points, and created anew; any other collection is left
\* as it is.
EnsureCollection ==
    /\ ec' = [fn |-> "_ensure_collection", pc |-> "done", found |-> collection, points |-> index]
    /\ IF ~collection.exists \/ collection.size # VectorSize
       THEN /\ collection' = CreatedCollection
            /\ index' = <<>>
       ELSE UNCHANGED <<collection, index>>
    /\ UNCHANGED <<regVars, trainVars, srvVars, reqVars, rrVars, archived, dbVars, ix, call,
                   sq, prep, fbreq, clock>>

\* Qdrant.clear_collection: the collection is deleted with its points.
ClearCollection ==
    /\ collection.exists
    /\ collection' = NoCollection
    /\ index' = <<>>
    /\ ec' = NoCall
    /\ UNCHANGED <<regVars, trainVars, srvVars, reqVars, rrVars, archived, dbVars, ix, call,
                   sq, prep, fbreq, clock>>

\* ------------------------------------------------- Qdrant.search_similar, the call
\* The payload keys a caller filters on, in the order search_recommendations
\* inserts them into q_filters (lines 247-257).
FilterKeys == <<"genres", "original_language", "release_year">>

\* The values a filter entry can have: a list, a dict that holds "gte",
\* "lte" or both, a scalar.
ListValues(S) == [type : {"list"}, any : SUBSET S]
RangeValues == {[type |-> "dict", keys |-> {"gte"}, gte |-> 2000, lte |-> None],
                [type |-> "dict", keys |-> {"lte"}, gte |-> None, lte |-> 2000],
                [type |-> "dict", keys |-> {"gte", "lte"}, gte |-> 2000, lte |-> 2010]}
ScalarValues == {[type |-> "scalar", value |-> 2005]}

\* models.FieldCondition(key, match=MatchAny | range=Range | match=MatchValue).
FieldCondition(key, kind, any, gte, lte, value) ==
    [key |-> key, kind |-> kind, any |-> any, gte |-> gte, lte |-> lte, value |-> value]

\* Lines 135-162 with a mistaken test of the dict: both keys are required.
Clause_BothBounds(key, val) ==
    IF val.type = "list"
    THEN FieldCondition(key, "any", val.any, None, None, None)
    ELSE IF val.type = "dict" /\ "gte" \in val.keys /\ "lte" \in val.keys
    THEN FieldCondition(key, "range", {}, val.gte, val.lte, None)
    ELSE FieldCondition(key, "value", {}, None, None, IF val.type = "scalar" THEN val.value ELSE None)

\* Lines 135-162: the condition appended to `must` for one entry.  val.get
\* gives None for a key the dict lacks.
Clause(key, val) ==
    IF val.type = "list"
    THEN FieldCondition(key, "any", val.any, None, None, None)
    ELSE IF val.type = "dict" /\ ("gte" \in val.keys \/ "lte" \in val.keys)
    THEN FieldCondition(key, "range", {}, val.gte, val.lte, None)
    ELSE FieldCondition(key, "value", {}, None, None, IF val.type = "scalar" THEN val.value ELSE None)

\* Lines 128-164: qdrant_filter is None when filters is None or empty, and
\* otherwise Filter(must=[one condition per entry, in the dict's order]).
RECURSIVE MustOf(_, _)
MustOf(entries, n) ==
    IF n = 0 THEN <<>>
    ELSE IF FilterKeys[n] \in DOMAIN entries
    THEN Append(MustOf(entries, n - 1), Clause(FilterKeys[n], entries[FilterKeys[n]]))
    ELSE MustOf(entries, n - 1)

QdrantFilter(filters) ==
    IF ~filters.given \/ DOMAIN filters.entries = {}
    THEN [none |-> TRUE, must |-> <<>>]
    ELSE [none |-> FALSE, must |-> MustOf(filters.entries, Len(FilterKeys))]

\* The store's test of one condition on a point's payload; a condition on
\* a field the payload lacks is not met.
ConditionHolds(payload, c) ==
    IF c.key = "genres"
    THEN IF c.kind = "any" THEN \E g \in c.any : payload.genres = {g} ELSE FALSE
    ELSE IF c.key = "release_year"
    THEN IF c.kind = "range"
         THEN /\ c.gte # None => payload.release_year >= c.gte
              /\ c.lte # None => payload.release_year <= c.lte
         ELSE c.kind = "value" /\ payload.release_year = c.value
    ELSE FALSE

\* client.search(query_vector, query_filter, limit): at most `limit` of the
\* points that meet every condition of the filter, best score first.
ClientSearch(query_filter, limit) ==
    LET M == {p \in DOMAIN index :
                \A i \in 1..Len(query_filter.must) : ConditionHolds(index[p], query_filter.must[i])}
    IN DistinctSeqs(M, Min(limit, Cardinality(M)))

\* Qdrant.search_similar(query, movie_vector, top, filters): ValueError
\* before anything is sent when query is None or empty and movie_vector is
\* None; otherwise one client.search with the filter built from `filters`.
SearchSimilar ==
    /\ sq.pc = "call"
    /\ IF sq.query \in {"None", ""} /\ sq.movie_vector = "None"
       THEN sq' = [sq EXCEPT !.pc = "raised", !.err = "ValueError"]
       ELSE LET query_filter == QdrantFilter(sq.filters)
            IN \E out \in ClientSearch(query_filter, sq.top) :
                  sq' = [sq EXCEPT !.pc = "done", !.out = out,
                                   !.sent = Append(sq.sent, [query_filter |-> query_filter,
                                                             limit |-> sq.top])]
    /\ UNCHANGED <<regVars, trainVars, srvVars, reqVars, rrVars, dataVars,
                   collection, ec, prep, fbreq, clock>>

\* --------------------------------------- training data: maps, matrix, evaluation
\* alpha, the default of both build_interaction_matrix functions; ratings are
\* whole numbers here, so a confidence 1 + alpha * rating is one too.
Alpha == 10

\* evaluate_model skips a user with fewer than 5 items; evaluate keeps the
\* users with at least 2; both score precision and recall at k = 10.
MinEvalItems == 5
MinPositives == 2
TopK == 10

\* load_feedbacks_from_db / fb_handler.list_all: every row of user_feedback.
load_feedbacks_from_db ==
    Flatten([u \in UserIds |->
               [i \in 1..Len(feedbacks[u]) |->
                  [user_id |-> u, movie_id |-> feedbacks[u][i].movie_id,
                   rating |-> feedbacks[u][i].rating, status |-> feedbacks[u][i].status]]])

\* {i: id for id, i in m.items()}
Inverse(m) == [i \in Range(m) |-> CHOOSE x \in DOMAIN m : m[x] = i]

\* training_helper.build_dataset_map(feedbacks, db): the users of the
\* feedback rows, and every movie of the table movies.
build_dataset_map(fbs) ==
    LET user_map == DenseIndex({fbs[i].user_id : i \in 1..Len(fbs)})
        item_map == DenseIndex(DOMAIN movies)
    IN [user_map |-> user_map, item_map |-> item_map, inv_item_map |-> Inverse(item_map)]

\* implicit_train.build_maps_and_feedbacks, lines 37-51: the users and the
\* movies of the feedback rows.
build_maps(fbs) ==
    LET user_map == DenseIndex({fbs[i].user_id : i \in 1..Len(fbs)})
        item_map == DenseIndex({fbs[i].movie_id : i \in 1..Len(fbs)})
    IN [user_map |-> user_map, item_map |-> item_map, inv_item_map |-> Inverse(item_map)]

\* coo_matrix((vals, (rows, cols)), shape): the stored entries and the shape.
coo_matrix(entries, n_rows, n_cols) == [entries |-> entries, shape |-> <<n_rows, n_cols>>]

\* training_helper.build_interaction_matrix: users x items; every row whose
\* user and movie are mapped gives an entry, `float(fb.rating) if fb.rating
\* else 1.0`, whatever its status.
build_interaction_matrix(fbs, user_map, item_map, alpha) ==
    LET Mapped(fb) == fb.user_id \in DOMAIN user_map /\ fb.movie_id \in DOMAIN item_map
        kept == SelectSeq(fbs, Mapped)
    IN coo_matrix([i \in 1..Len(kept) |->
                     [row |-> user_map[kept[i].user_id], col |-> item_map[kept[i].movie_id],
                      val |-> 1 + alpha * (IF kept[i].rating # None THEN kept[i].rating ELSE 1)]],
                  Cardinality(DOMAIN user_map), Cardinality(DOMAIN item_map))

\* implicit_utils.build_interaction_matrix: items x users; an unrated row
\* counts as rating 1.0 when its status is "watched" and is skipped otherwise.
implicit_utils_build_interaction_matrix(fbs, user_map, item_map, alpha) ==
    LET Mapped(fb) == /\ fb.user_id \in DOMAIN user_map /\ fb.movie_id \in DOMAIN item_map
                      /\ fb.rating = None => fb.status = "watched"
        kept == SelectSeq(fbs, Mapped)
    IN coo_matrix([i \in 1..Len(kept) |->
                     [row |-> item_map[kept[i].movie_id], col |-> user_map[kept[i].user_id],
                      val |-> 1 + alpha * (IF kept[i].rating # None THEN kept[i].rating ELSE 1)]],
                  Cardinality(DOMAIN item_map), Cardinality(DOMAIN user_map))

\* No call of the training functions is under way.
NoPrep == [fn |-> "none", pc |-> "none", err |-> "none", feedbacks |-> <<>>,
           dataset_map |-> [user_map |-> <<>>, item_map |-> <<>>, inv_item_map |-> <<>>],
           interactions |-> coo_matrix(<<>>, 0, 0),
           evaluated |-> <<>>, returned |-> <<>>, logged |-> <<>>]

\* train_implicit.train, lines 75-91, as the module calls it: line 84 passes
\* build_dataset_map one argument where it takes two, a TypeError.
TrainPrepare ==
    /\ prep.pc = "none"
    /\ prep' = [NoPrep EXCEPT !.fn = "train", !.pc = "raised", !.err = "TypeError",
                              !.feedbacks = load_feedbacks_from_db]
    /\ UNCHANGED <<regVars, trainVars, srvVars, reqVars, rrVars, dataVars,
                   collection, ec, sq, fbreq, clock>>

\* Lines 80-91 with build_dataset_map given the session it takes: the maps
\* and the matrix of training_helper for the rows of the table.
HelperPrepare ==
    /\ prep.pc = "none"
    /\ LET fbs == load_feedbacks_from_db
           dataset_map == build_dataset_map(fbs)
       IN prep' = [NoPrep EXCEPT !.fn = "training_helper", !.pc = "built", !.feedbacks = fbs,
                                 !.dataset_map = dataset_map,
                                 !.interactions =
                                     build_interaction_matrix(fbs, dataset_map.user_map,
                                                              dataset_map.item_map, Alpha)]
    /\ UNCHANGED <<regVars, trainVars, srvVars, reqVars, rrVars, dataVars,
                   collection, ec, sq, fbreq, clock>>

\* implicit_train.train, lines 125-130: build_maps_and_feedbacks raises
\* RuntimeError when the table has no row, and the matrix is built from
\* its maps.
ImplicitTrainPrepare ==
    /\ prep.pc = "none"
    /\ LET fbs == load_feedbacks_from_db
           dataset_map == build_maps(fbs)
       IN IF fbs = <<>>
          THEN prep' = [NoPrep EXCEPT !.fn = "implicit_train", !.pc = "raised",
                                      !.err = "RuntimeError"]
          ELSE prep' = [NoPrep EXCEPT !.fn = "implicit_train", !.pc = "built", !.feedbacks = fbs,
                                      !.dataset_map = dataset_map,
                                      !.interactions =
                                          implicit_utils_build_interaction_matrix(
                                              fbs, dataset_map.user_map, dataset_map.item_map, Alpha)]
    /\ UNCHANGED <<regVars, trainVars, srvVars, reqVars, rrVars, dataVars,
                   collection, ec, sq, fbreq, clock>>

\* model.fit(interactions.tocsr()) of either train(): the matrix is handed
\* to ALS as it is.
ModelFit ==
    /\ prep.pc = "built"
    /\ prep' = [prep EXCEPT !.pc = "fitted"]
    /\ UNCHANGED <<regVars, trainVars, srvVars, reqVars, rrVars, dataVars,
                   collection, ec, sq, fbreq, clock>>

\* ---- evaluation
Max(a, b) == IF a >= b THEN a ELSE b

RECURSIVE SumOver(_, _)
SumOver(f, S) == IF S = {} THEN 0
                 ELSE LET x == CHOOSE y \in S : TRUE IN f[x] + SumOver(f, S \ {x})

\* np.mean of per-user ratios hits / denominator, in thousandths.
\* precision_at_k divides a user's hits by k, recall_at_k by the number of
\* the user's held-out items.
MeanRatio(evaluated, metric) ==
    LET E == DOMAIN evaluated
        Denominator(p) == IF metric = "precision" THEN TopK ELSE Cardinality(p.truth)
    IN SumOver([u \in E |-> (evaluated[u].hits * 1000) \div Denominator(evaluated[u])], E)
          \div Cardinality(E)

\* What one evaluated user contributes: the held-out items and how many of
\* them the top k of the fitted model's scores hold.
UserOutcomes(truth) == {[truth |-> truth, hits |-> h] : h \in 0..Min(TopK, Cardinality(truth))}

\* training_helper.evaluate_model, lines 82-104, over a users x items
\* matrix (at most sample_users = 2000 users): a user with fewer than 5
\* items is skipped, max(1, int(0.2 * n)) random items of the others are
\* held out.
evaluate_model_preds(interactions) ==
    LET m == interactions.entries
        items(u) == {m[i].col : i \in {j \in 1..Len(m) : m[j].row = u}}
        E == {u \in 0..(interactions.shape[1] - 1) : Cardinality(items(u)) >= MinEvalItems}
        n_test(u) == Max(1, Cardinality(items(u)) \div 5)
    IN {f \in [E -> UNION {UserOutcomes(t) : t \in SUBSET (0..(interactions.shape[2] - 1))}] :
          \A u \in E : /\ f[u].truth \subseteq items(u)
                        /\ Cardinality(f[u].truth) = n_test(u)}

\* training_helper.evaluate_model: (0.0, 0.0) without predictions, else
\* (precision_at_k(), recall_at_k()); train() logs the two as metrics.
EvaluateModel ==
    /\ prep.fn = "training_helper" /\ prep.pc = "fitted"
    /\ \E preds \in evaluate_model_preds(prep.interactions) :
         LET result == IF DOMAIN preds = {} THEN <<0, 0>>
                       ELSE <<MeanRatio(preds, "precision"), MeanRatio(preds, "recall")>>
         IN prep' = [prep EXCEPT !.pc = "evaluated", !.evaluated = preds,
                                 !.returned = result, !.logged = result]
    /\ UNCHANGED <<regVars, trainVars, srvVars, reqVars, rrVars, dataVars,
                   collection, ec, sq, fbreq, clock>>

\* implicit_train.evaluate, lines 60-99, over an items x users matrix: the
\* users with at least 2 items; the item of the highest index is held out.
evaluate_preds(interactions) ==
    LET m == interactions.entries
        user_pos(u) == {m[i].row : i \in {j \in 1..Len(m) : m[j].col = u}}
        E == {u \in 0..(interactions.shape[2] - 1) : Cardinality(user_pos(u)) >= MinPositives}
    IN {f \in [E -> UNION {UserOutcomes({t}) : t \in 0..(interactions.shape[1] - 1)}] :
          \A u \in E : f[u].truth = {MaxOf(user_pos(u))}}

\* implicit_train.evaluate: without an eligible user it prints and returns;
\* otherwise it logs the two metrics; it returns None either way.
Evaluate ==
    /\ prep.fn = "implicit_train" /\ prep.pc = "fitted"
    /\ \E preds \in evaluate_preds(prep.interactions) :
         prep' = [prep EXCEPT !.pc = "evaluated", !.evaluated = preds,
                              !.returned = <<>>,
                              !.logged = IF DOMAIN preds = {} THEN <<>>
                                         ELSE <<MeanRatio(preds, "precision"), MeanRatio(preds, "recall")>>]
    /\ UNCHANGED <<regVars, trainVars, srvVars, reqVars, rrVars, dataVars,
                   collection, ec, sq, fbreq, clock>>

\* ------------------------------------------------ POST /feedbacks (user_feedback.py)
\* Requests of user 1 about movie 1 that worker processes serve at the
\* same time.
MaxRequests == 2
Requests == 1..MaxRequests

\* The rows of user_id on movie_id, as positions in the user's rows.
PairRows(user_id, movie_id) ==
    {i \in 1..Len(feedbacks[user_id]) : feedbacks[user_id][i].movie_id = movie_id}

\* Steps the requests have taken so far.
StepsTaken ==
    Cardinality({r \in Requests : fbreq[r].pc \in {"read", "done"}})
        + Cardinality({r \in Requests : fbreq[r].pc = "done"})

\* The table user_feedback takes every inserted row under the next serial
\* id: no uniqueness rule on (user_id, movie_id) rejects a second row of a
\* pair.
insert_feedback(rows, row) ==
    LET ids == {rows[i].id : i \in 1..Len(rows)}
    IN <<[row EXCEPT !.id = IF ids = {} THEN 1 ELSE MaxOf(ids) + 1]>> \o rows

\* UserFeedbackHandler.update(id, obj_in): rating and status of the row
\* with this id are set and committed; the row becomes the user's most
\* recently updated one.
update_feedback(rows, id, rating, status, by) ==
    LET WithId(row) == row.id = id
        Others(row) == row.id # id
        old == SelectSeq(rows, WithId)
    IN IF old = <<>> THEN rows
       ELSE <<[old[1] EXCEPT !.rating = rating, !.status = status, !.by = by]>>
               \o SelectSeq(rows, Others)

\* create_or_update_feedback, line 34: get_by_user_movie, the .first() of
\* the rows of the pair, or None.
FeedbackRead(r) ==
    /\ fbreq[r].pc = "call"
    /\ \E existing \in IF PairRows(1, 1) = {} THEN {None}
                        ELSE {feedbacks[1][i].id : i \in PairRows(1, 1)} :
         fbreq' = [fbreq EXCEPT ![r].pc = "read", ![r].existing = existing,
                                ![r].read_at = StepsTaken + 1]
    /\ UNCHANGED <<regVars, trainVars, srvVars, reqVars, rrVars, dataVars,
                   collection, ec, sq, prep, clock>>

\* create_or_update_feedback, lines 36-57: update of the row found, or
\* create of a new row when none was found.
FeedbackWrite(r) ==
    /\ fbreq[r].pc = "read"
    /\ feedbacks' =
          [feedbacks EXCEPT ![1] =
             IF fbreq[r].existing # None
             THEN update_feedback(feedbacks[1], fbreq[r].existing,
                                  fbreq[r].rating, fbreq[r].status, r)
             ELSE insert_feedback(feedbacks[1],
                                  [id |-> 0, movie_id |-> 1, rating |-> fbreq[r].rating,
                                   status |-> fbreq[r].status, by |-> r])]
    /\ fbreq' = [fbreq EXCEPT ![r].pc = "done", ![r].done_at = StepsTaken + 1]
    /\ UNCHANGED <<regVars, trainVars, srvVars, reqVars, rrVars, archived, movies, rowOrder,
                   preferences, index, ix, call, collection, ec, sq, prep, clock>>

\* --------------------------------------- seconds_until_next_4am and the sleep
\* Time is counted in slots. An instant is the number of slots elapsed
\* since the wall clock of Europe/Paris showed 00:00 on the first day; a
\* wall-clock reading is the number of slots since that same 00:00 as the
\* clock's fields (date, hour, minute) give it.
SlotsPerHour == 2

ClockDays == 2

Hour == SlotsPerHour

Day == 24 * Hour

\* EURO_TZ over the days looked at: no change of the offset, or the change
\* of the last Sunday of March (02:00 becomes 03:00) or of October (03:00
\* becomes 02:00) in the night that begins the second day.
Rules == {"none", "spring", "autumn"}

\* The offset of the zone at an instant, relative to the offset at the
\* start.
utcoffset(rule, t) ==
    CASE rule = "spring" /\ t >= Day + 2 * Hour -> Hour
      [] rule = "autumn" /\ t >= Day + 3 * Hour -> 0 - Hour
      [] OTHER -> 0

\* datetime.now(EURO_TZ): the wall-clock reading at an instant.
datetime_now(rule, t) == t + utcoffset(rule, t)

\* dt.replace(hour=4, minute=0, second=0, microsecond=0): the date is
\* kept, the time of day is set.
replace_4am(dt) == (dt \div Day) * Day + 4 * Hour

\* The comparison and the subtraction are between two datetimes that share
\* one tzinfo object: Python then works on the wall-clock fields and
\* ignores the offsets; timedelta(days=1) adds to the fields as well.
seconds_until_next_4am(rule, t) ==
    LET now      == datetime_now(rule, t)
        tomorrow == now + Day
        next_run == replace_4am(now)
    IN  IF now >= next_run THEN replace_4am(tomorrow) - now ELSE next_run - now

\* model_watcher_thread, line 51: the delay is computed from the clock.
WatcherComputes ==
    /\ clock.pc = "loop"
    /\ clock' = [clock EXCEPT !.pc = "sleeping", !.at = clock.t,
                              !.sleep_secs = seconds_until_next_4am(clock.rule, clock.t)]
    /\ UNCHANGED <<regVars, trainVars, srvVars, reqVars, rrVars, dataVars,
                   collection, ec, sq, prep, fbreq>>

\* model_watcher_thread, line 54: time.sleep(sleep_secs) ends when that
\* many seconds have elapsed; the check of the registry follows (WatcherTick).
WatcherSleeps ==
    /\ clock.pc = "sleeping"
    /\ clock' = [clock EXCEPT !.pc = "woke", !.t = clock.t + clock.sleep_secs]
    /\ UNCHANGED <<regVars, trainVars, srvVars, reqVars, rrVars, dataVars,
                   collection, ec, sq, prep, fbreq>>

\* ---------------------------------------------------------------- specs
InitRegistry ==
    /\ versions = {}
    /\ nextVersion = 1
    /\ stageTag = {}
    /\ runMetrics = [v \in 1..(MaxVersion + MaxRuns) |-> <<None, None>>]

InitTrain ==
    /\ tpc = [r \in Runs |-> "idle"]
    /\ tlocal = [r \in Runs |-> NoLocals]
    /\ prodBefore = [r \in Runs |-> {}]

InitServer ==
    /\ proc = "down"
    /\ MODEL_CACHE = EmptyCache
    /\ lpc = [c \in Callers |-> "idle"]
    /\ lstep = [c \in Callers |-> 0]
    /\ loaded = [c \in Callers |-> None]
    /\ lerr = [c \in Callers |-> "none"]
    /\ wpc = "off"
    /\ werr = "none"

InitRequest ==
    /\ rstep = 0
    /\ svc = NoService

\* No re-ranking call is under way.
NoArtifacts == [user_map |-> <<>>, item_map |-> <<>>, user_factors |-> <<>>, item_factors |-> <<>>]

InitNoRerank ==
    /\ artifacts = NoArtifacts
    /\ rr = [user_id |-> None, candidate_ids |-> <<>>, pc |-> "none", out |-> <<>>, reads |-> {}]

\* An empty database and an empty collection; no version archived; no call
\* of a recommendation method or of an index write under way.
InitNoData ==
    /\ archived = {}
    /\ movies = <<>>
    /\ rowOrder = <<>>
    /\ feedbacks = [u \in UserIds |-> <<>>]
    /\ preferences = [u \in UserIds |-> {}]
    /\ index = <<>>
    /\ ix = NoCall
    /\ call = NoCall

\* The collection as Qdrant.__init__ leaves it; no call of the functions
\* below under way.
InitNoAux ==
    /\ collection = [exists |-> TRUE, size |-> VectorSize, distance |-> "Cosine"]
    /\ ec = NoCall
    /\ sq = NoCall
    /\ prep = NoCall
    /\ fbreq = NoCall
    /\ clock = NoCall

Init == InitRegistry /\ InitTrain /\ InitServer /\ InitRequest /\ InitNoRerank /\ InitNoData /\ InitNoAux

\* Training runs one after the other, as the Prefect flow starts them.
NextTrain == \E r \in Runs : TrainStep(r, TRUE)

SpecTrain == Init /\ [][NextTrain]_vars

\* Training runs that overlap: a second run of the flow starts while the
\* first is still under way.
NextOverlap == \E r \in Runs : TrainStep(r, FALSE)

SpecOverlap == Init /\ [][NextOverlap]_vars

\* The serving process as main.py runs it.
NextServer ==
    \/ LifespanStart
    \/ \E c \in Callers : LoadFetch(c)
    \/ \E c \in Callers : LoadWrite(c)
    \/ LifespanServe
    \/ LifespanRaise
    \/ WatcherWake
    \/ WatcherTick
    \/ ServiceInitRead
    \/ RequestReturn

\* The whole system: training runs against the registry while the serving
\* process starts, serves requests and runs its watcher.
Next == NextTrain \/ NextServer

Spec == Init /\ [][Next]_vars

\* The threads of the serving process are scheduled: a step one of them can
\* take is eventually taken.  Training runs are started from outside and may
\* never come.
LiveSpec ==
    /\ Spec
    /\ WF_vars(LifespanStart) /\ WF_vars(LifespanServe) /\ WF_vars(LifespanRaise)
    /\ WF_vars(\E c \in Callers : LoadFetch(c))
    /\ WF_vars(\E c \in Callers : LoadWrite(c))
    /\ WF_vars(WatcherWake) /\ WF_vars(WatcherTick)

\* The system with the two entry points nothing in the repository calls on
\* its own: a refresh of the cache by load_model() while requests are served,
\* and the registry clean-up delete_model_versions().  The watcher thread,
\* which touches neither the cache nor the registry, is left asleep.
NextRefresh ==
    \/ NextTrain
    \/ LifespanStart
    \/ \E c \in Callers : LoadFetch(c)
    \/ \E c \in Callers : LoadWrite(c)
    \/ LifespanServe
    \/ LifespanRaise
    \/ ServiceInitRead
    \/ RequestReturn
    \/ RefreshCall
    \/ RefreshEnd
    \/ DeleteModelVersions

SpecRefresh == Init /\ [][NextRefresh]_vars

\* Training runs, any step of which may fail.
NextTrainFail == \E r \in Runs : TrainStep(r, TRUE) \/ TrainFail(r, TRUE)

SpecTrainFail == Init /\ [][NextTrainFail]_vars

\* Training runs and the two clean-up functions of model_registery.py.
NextRegistry ==
    \/ NextTrain
    \/ ArchiveOldVersions
    \/ DeleteModelVersions

SpecRegistry == Init /\ [][NextRegistry]_vars

\* The catalog: the movie routes, the daily ingest and the writes of the index.
NextCatalog ==
    \/ CreateOrUpdateMovieRoute
    \/ UpdateMovie
    \/ DeleteMovie
    \/ IngestUpsert
    \/ EmbedAndIndex
    \/ UpsertMoviesCall
    \/ UpsertMovies
    \/ IndexReturn

SpecCatalog == Init /\ [][NextCatalog]_vars

\* ---- _rerank_with_implicit on its own
\* Sequences over S of length at most n.
SeqsUpTo(S, n) == UNION {[1..k -> S] : k \in 0..n}

\* The artifacts a trained version can carry: a user map over the users with
\* feedback, an item map over the catalog of training time (items added to
\* the catalog later are absent from it), one factor row per index.
ArtifactChoices ==
    UNION {
      {[user_map |-> DenseIndex(U), item_map |-> DenseIndex(I),
        user_factors |-> uf, item_factors |-> itf] :
          uf \in [1..Cardinality(U) -> UserRows],
          itf \in [1..Cardinality(I) -> ItemRows]} :
      U \in (SUBSET UserIds) \ {{}}, I \in SUBSET Items}

\* The registry holds production version 1 and no run is under way.
InitTrained ==
    /\ versions = {1}
    /\ nextVersion = 2
    /\ stageTag = {1}
    /\ runMetrics = [v \in 1..(MaxVersion + MaxRuns) |->
                        IF v = 1 THEN <<30, 20>> ELSE <<None, None>>]
    /\ InitTrain

\* A serving process whose cache holds production version 1, and a request
\* that has constructed its service from it.
InitServing ==
    /\ proc = "serving"
    /\ MODEL_CACHE = [k \in DOMAIN EmptyCache |-> 1]
    /\ lpc = [c \in Callers |-> "idle"]
    /\ lstep = [c \in Callers |-> 0]
    /\ loaded = [c \in Callers |-> None]
    /\ lerr = [c \in Callers |-> "none"]
    /\ wpc = "sleeping"
    /\ werr = "none"
    /\ rstep = Len(ServiceKeys)
    /\ svc = [k \in DOMAIN NoService |-> 1]

\* A RecommendationService constructed in a process whose MODEL_CACHE is as
\* the module defines it (load_model() has not run): every attribute is None.
InitUnloaded ==
    /\ InitServer
    /\ rstep = Len(ServiceKeys)
    /\ svc = NoService

\* A service that is about to re-rank: one built from the cached version
\* with the artifacts it carries, or one built from the empty cache.
InitRerank ==
    /\ InitTrained
    /\ \/ InitServing /\ artifacts \in ArtifactChoices
       \/ InitUnloaded /\ artifacts = NoArtifacts
    /\ rr \in [user_id : UserIds, candidate_ids : SeqsUpTo(Items, MaxCands),
               pc : {"call"}, out : {<<>>}, reads : {{}}]
    /\ InitNoData
    /\ InitNoAux

NextRerank == Rerank

SpecRerank == InitRerank /\ [][NextRerank]_vars

\* ---- the recommendation methods on their own
\* Every item has a row drawn from `rows`; the points of P are indexed.
InitCatalog(rows, P) ==
    /\ movies \in [Items -> rows]
    /\ rowOrder \in DistinctSeqs(Items, Cardinality(Items))
    /\ index = [p \in P |-> PointOf(movies[p])]

\* The artifacts of the cached version in the calls of the recommendation
\* methods: the user map holds one user, the item map the catalog of
\* training time.
RecommendArtifacts ==
    UNION {
      {[user_map |-> DenseIndex({u}), item_map |-> DenseIndex(I),
        user_factors |-> <<(<<1, 0>>)>>, item_factors |-> itf] :
          itf \in [1..Cardinality(I) -> {<<0, 1>>, <<1, 0>>}]} :
      u \in UserIds, I \in {Items, Items \ {2}}}

\* The service of the call: built from the cached version, or from the
\* empty cache.
InitService ==
    \/ InitServing /\ artifacts \in RecommendArtifacts
    \/ InitUnloaded /\ artifacts = NoArtifacts

\* The arguments of a call by user 1.
CallsOf(fn) == [fn : {fn}, user_id : {1}, limit : 1..MaxLimit,
                pc : {"call"}, out : {<<>>}, path : {"none"}, query : {<<>>}]

\* The genre preferences stored for user 1.
InitPreferences ==
    \E g \in {{}, {"Action"}} : preferences = [u \in UserIds |-> IF u = 1 THEN g ELSE {}]

\* A call of recommend_for_cold_start by a user without feedback.
InitColdStart ==
    /\ InitUnloaded /\ artifacts = NoArtifacts
    /\ \E P \in SUBSET Items :
          InitCatalog([genres : {{"Action"}, {"Drama"}}, popularity : Popularities,
                       release_year : {2005}, text : {1}], P)
    /\ feedbacks = [u \in UserIds |-> <<>>]
    /\ InitPreferences
    /\ call \in CallsOf("cold_start")

\* A call of personalized_recommendations by a user with up to two feedback
\* rows on items of the catalog.
InitPersonalized ==
    /\ InitService
    /\ \E P \in {Items, Items \ {MaxItem}} :
          InitCatalog({[genres |-> {"Action"}, popularity |-> 2, release_year |-> 2005, text |-> 1],
                       [genres |-> {"Drama"}, popularity |-> 1, release_year |-> 2005, text |-> 1]}, P)
    /\ \E k \in 0..2 : \E ids \in DistinctSeqs(Items, k) :
          feedbacks = [u \in UserIds |->
                         IF u = 1 THEN [i \in 1..k |-> [movie_id |-> ids[i], status |-> "watched"]]
                         ELSE <<>>]
    /\ InitPreferences
    /\ call \in CallsOf("personalized")

\* A call of recommendations_based_on_recent_activity (the route passes
\* limit and leaves last_n at its default 3) by a user with up to two
\* "watched" rows, over a catalog that is indexed in full.
InitRecent ==
    /\ InitUnloaded /\ artifacts = NoArtifacts
    /\ movies = [m \in 1..MaxCatalog |->
                   [genres |-> {"Action"}, popularity |-> 1, release_year |-> 2005, text |-> 1]]
    /\ rowOrder = [i \in 1..MaxCatalog |-> i]
    /\ index = [m \in 1..MaxCatalog |-> PointOf(movies[m])]
    /\ \E k \in 0..2 : \E ids \in DistinctSeqs(1..2, k) :
          feedbacks = [u \in UserIds |->
                         IF u = 1 THEN [i \in 1..k |-> [movie_id |-> ids[i], status |-> "watched"]]
                         ELSE <<>>]
    /\ preferences = [u \in UserIds |-> {}]
    /\ call \in [fn : {"recent"}, user_id : {1}, limit : 1..MaxLimit, last_n : {3},
                 pc : {"call"}, out : {<<>>}, received : {<<>>}]

\* A call of search_recommendations, anonymous or by user 1, with or
\* without example titles, a genre list and a year range, over a catalog
\* that is indexed in full.
InitSearch ==
    /\ InitService
    /\ movies \in [Items -> [genres : {{"Action"}, {"Drama"}}, popularity : {1},
                              release_year : Years, text : {1}]]
    /\ rowOrder = [i \in 1..Cardinality(Items) |-> i]
    /\ index = [p \in Items |-> PointOf(movies[p])]
    /\ \E fb \in {<<>>, <<[movie_id |-> 1, status |-> "watched"]>>} :
          feedbacks = [u \in UserIds |-> IF u = 1 THEN fb ELSE <<>>]
    /\ preferences = [u \in UserIds |-> {}]
    /\ call \in [fn : {"search"}, user_id : {None, 1}, query_movies : {{}, {1}},
                 genres : {{}, {"Action"}}, year_min : {None, 2000}, year_max : {None, 2010},
                 limit : 1..MaxLimit, pc : {"call"}, out : {<<>>}]

InitRecommend ==
    /\ InitTrained
    /\ InitNoAux
    /\ archived = {}
    /\ ix = NoCall
    /\ rr = [user_id |-> None, candidate_ids |-> <<>>, pc |-> "none", out |-> <<>>, reads |-> {}]
    /\ \/ InitColdStart
       \/ InitPersonalized
       \/ InitRecent
       \/ InitSearch

NextRecommend ==
    \/ ColdStart
    \/ Personalized
    \/ RecentActivity
    \/ Search

SpecRecommend == InitRecommend /\ [][NextRecommend]_vars

\* ---- the collection and its configuration
\* The store before Qdrant.__init__: no collection, or one of any vector
\* size and metric that holds points of the catalog.
InitCollection ==
    /\ InitRegistry /\ InitTrain /\ InitServer /\ InitRequest /\ InitNoRerank
    /\ archived = {}
    /\ feedbacks = [u \in UserIds |-> <<>>]
    /\ preferences = [u \in UserIds |-> {}]
    /\ ix = NoCall
    /\ call = NoCall
    /\ ec = NoCall /\ sq = NoCall /\ prep = NoCall /\ fbreq = NoCall /\ clock = NoCall
    /\ \/ /\ collection = NoCollection
          /\ InitCatalog([genres : {{"Action"}}, popularity : {1}, release_year : Years,
                          text : {1}], {})
       \/ /\ collection \in [exists : {TRUE}, size : VectorSizes, distance : Distances]
          /\ \E P \in SUBSET Items :
                InitCatalog([genres : {{"Action"}}, popularity : {1}, release_year : Years,
                             text : {1}], P)

NextCollection ==
    \/ EnsureCollection
    \/ ClearCollection

SpecCollection == InitCollection /\ [][NextCollection]_vars

\* ---- search_similar on its own
\* The filters argument: None, or a dict with any of the three keys.
FilterChoices ==
    {[given |-> FALSE, entries |-> <<>>]} \cup
    UNION {[given : {TRUE},
            entries : {e \in [K -> ListValues({"Action", "Drama"}) \cup ListValues({"en"})
                                   \cup RangeValues \cup ScalarValues] :
                         /\ "genres" \in K => e["genres"] \in ListValues({"Action", "Drama"})
                         /\ "original_language" \in K
                               => e["original_language"] \in ListValues({"en"}) \ ListValues({})
                         /\ "release_year" \in K
                               => e["release_year"] \in RangeValues \cup ScalarValues}] :
           K \in SUBSET {FilterKeys[i] : i \in 1..Len(FilterKeys)}}

\* A call of search_similar over a collection that holds a point for every
\* movie of the catalog.
InitSearchSimilar ==
    /\ InitRegistry /\ InitTrain /\ InitServer /\ InitRequest /\ InitNoRerank
    /\ archived = {}
    /\ movies \in [Items -> [genres : {{"Action"}, {"Drama"}}, popularity : {1},
                              release_year : Years, text : {1}]]
    /\ rowOrder = [i \in 1..Cardinality(Items) |-> i]
    /\ index = [p \in Items |-> PointOf(movies[p])]
    /\ feedbacks = [u \in UserIds |-> <<>>]
    /\ preferences = [u \in UserIds |-> {}]
    /\ ix = NoCall
    /\ call = NoCall
    /\ collection = CreatedCollection
    /\ ec = NoCall /\ prep = NoCall /\ fbreq = NoCall /\ clock = NoCall
    /\ sq \in [fn : {"search_similar"}, query : {"None", "", "text"},
                movie_vector : {"None", "vector"}, top : 1..MaxLimit, filters : FilterChoices,
                pc : {"call"}, err : {"none"}, sent : {<<>>}, out : {<<>>}]

NextSearchSimilar == SearchSimilar

SpecSearchSimilar == InitSearchSimilar /\ [][NextSearchSimilar]_vars

\* ---- the training data functions on their own
\* The rows a user can have on an item: rated or not, watched or on the
\* watchlist.
RowKinds == [rating : {None, 3, 5}, status : {"watched", "watchlist"}]
NoRow == [rating |-> None, status |-> "absent"]

\* The user's rows for the items f gives a row, one row per item.
RECURSIVE RowsFrom(_, _)
RowsFrom(f, n) ==
    IF n = 0 THEN <<>>
    ELSE IF f[n] = NoRow THEN RowsFrom(f, n - 1)
    ELSE Append(RowsFrom(f, n - 1),
                [movie_id |-> n, rating |-> f[n].rating, status |-> f[n].status])

\* A catalog of MaxItem movies; user 1 has any rows on it, every other user
\* none or rated, watched rows on the first two movies.
InitPrepare ==
    /\ InitRegistry /\ InitTrain /\ InitServer /\ InitRequest /\ InitNoRerank
    /\ archived = {}
    /\ movies = [m \in Items |-> MovieRow(1)]
    /\ rowOrder = [i \in 1..Cardinality(Items) |-> i]
    /\ index = <<>>
    /\ \E f1 \in [Items -> RowKinds \cup {NoRow}] :
       \E g \in [UserIds \ {1} -> SUBSET (1..2)] :
          feedbacks = [u \in UserIds |->
                         IF u = 1 THEN RowsFrom(f1, MaxItem)
                         ELSE RowsFrom([i \in Items |->
                                          IF i \in g[u] THEN [rating |-> 3, status |-> "watched"]
                                          ELSE NoRow], MaxItem)]
    /\ preferences = [u \in UserIds |-> {}]
    /\ ix = NoCall
    /\ call = NoCall
    /\ collection = CreatedCollection
    /\ ec = NoCall /\ sq = NoCall /\ fbreq = NoCall /\ clock = NoCall
    /\ prep = NoPrep

NextPrepare ==
    \/ TrainPrepare
    \/ HelperPrepare
    \/ ImplicitTrainPrepare
    \/ ModelFit
    \/ EvaluateModel
    \/ Evaluate

SpecPrepare == InitPrepare /\ [][NextPrepare]_vars

\* ---- the feedback route on its own
\* User 1 has no row on movie 1, or one; the requests carry any rating and
\* status.
InitFeedback ==
    /\ InitRegistry /\ InitTrain /\ InitServer /\ InitRequest /\ InitNoRerank
    /\ archived = {}
    /\ movies = [m \in Items |-> MovieRow(1)]
    /\ rowOrder = [i \in 1..Cardinality(Items) |-> i]
    /\ index = <<>>
    /\ \E rows \in {<<>>} \cup {<<[id |-> 1, movie_id |-> m, rating |-> 1,
                                     status |-> "watchlist", by |-> 0]>> : m \in 1..2} :
          feedbacks = [u \in UserIds |-> IF u = 1 THEN rows ELSE <<>>]
    /\ preferences = [u \in UserIds |-> {}]
    /\ ix = NoCall
    /\ call = NoCall
    /\ collection = CreatedCollection
    /\ ec = NoCall /\ sq = NoCall /\ prep = NoCall /\ clock = NoCall
    /\ fbreq \in [Requests -> [pc : {"call"}, rating : {None, 3, 5},
                               status : {"watched", "watchlist"},
                               existing : {None}, read_at : {0}, done_at : {0}]]

NextFeedback == \E r \in Requests : FeedbackRead(r) \/ FeedbackWrite(r)

SpecFeedback == InitFeedback /\ [][NextFeedback]_vars

\* ---- the query window of personalized_recommendations
\* User 1 has rated the movies 1..k in this order, so the rows come newest
\* first as k, ..., 1; some of the first two movies are indexed.
InitWindow ==
    /\ InitTrained
    /\ InitNoAux
    /\ InitService
    /\ archived = {}
    /\ ix = NoCall
    /\ rr = [user_id |-> None, candidate_ids |-> <<>>, pc |-> "none", out |-> <<>>, reads |-> {}]
    /\ movies = [m \in 1..MaxHistory |-> MovieRow(1)]
    /\ rowOrder = [i \in 1..MaxHistory |-> i]
    /\ \E P \in SUBSET (1..2) : index = [p \in P |-> PointOf(movies[p])]
    /\ \E k \in 0..MaxHistory :
          feedbacks = [u \in UserIds |->
                         IF u = 1 THEN [i \in 1..k |-> [movie_id |-> k + 1 - i, status |-> "watched"]]
                         ELSE <<>>]
    /\ preferences = [u \in UserIds |-> {}]
    /\ call \in CallsOf("personalized")

NextWindow == Personalized

SpecWindow == InitWindow /\ [][NextWindow]_vars

\* ---- the watcher's clock on its own
\* The thread reaches line 51 at any instant of the first days.
InitClock ==
    /\ InitRegistry /\ InitTrain /\ InitServer /\ InitRequest /\ InitNoRerank /\ InitNoData
    /\ collection = CreatedCollection
    /\ ec = NoCall /\ sq = NoCall /\ prep = NoCall /\ fbreq = NoCall
    /\ clock \in [fn : {"model_watcher_thread"}, pc : {"loop"}, rule : Rules,
                  t : 0..(ClockDays * Day - 1), at : {None}, sleep_secs : {None}]

NextClock == WatcherComputes \/ WatcherSleeps

SpecClock == InitClock /\ [][NextClock]_vars

\* ---------------------------------------------------------------- claims

\* C2: in every reachable state of the registry, the intermediate states of
\* the promotion step included, at most one version holds the production
\* stage, and during and after a promotion step exactly one does.
C2_SingleProduction ==
    /\ Cardinality(ProductionVersions) <= 1
    /\ (\E r \in Runs : tpc[r] \in {"untag", "promoted"})
          => Cardinality(ProductionVersions) = 1

\* The registry says the run's version is to be promoted: nothing holds
\* production, or the run beats the production version on precision
\* (strictly) and is no worse on recall.
PromotionDue(r) ==
    \/ ProductionVersions = {}
    \/ \E v \in ProductionVersions :
          /\ tlocal[r].p10 > runMetrics[v][1]
          /\ tlocal[r].r10 >= runMetrics[v][2]

\* C3: a training run promotes its newly registered version if and only if
\* no version holds production or its precision@10 is strictly greater and
\* its recall@10 greater or equal than those of the production version; a
\* run that promotes tags the version it registered, a run that does not
\* leaves the tags alone.
C3_PromoteIffBetter ==
    /\ [][\A r \in Runs :
            (tpc[r] = "latest" /\ tpc'[r] # "latest")
               => /\ (tpc'[r] = "promote") <=> PromotionDue(r)
                  /\ (tpc'[r] = "skipped") <=> ~PromotionDue(r)
                  /\ tlocal[r].latest = nextVersion - 1]_vars
    /\ [][\A r \in Runs :
            (tpc[r] = "promote" /\ tpc'[r] # "promote")
               => tlocal[r].latest \in stageTag']_vars
    /\ [][\A r \in Runs :
            tpc[r] = "skipped" => stageTag' = stageTag]_vars

\* Against production p=0.30, r=0.20 a candidate p=0.32, r=0.15 was not
\* promoted, and the registry still holds the old production version.
C3_Witness ==
    \E r \in Runs :
       /\ tpc[r] = "skipped"
       /\ tlocal[r].p10 = 32 /\ tlocal[r].r10 = 15
       /\ \E v \in ProductionVersions : runMetrics[v] = <<30, 20>>
       /\ tlocal[r].latest \notin stageTag

\* C1: a request that has constructed its RecommendationService holds
\* artifacts of one model version: implicit_model, dataset_map, item_factors
\* and user_factors all come from the same load.
C1_ServiceOfOneVersion ==
    rstep = Len(ServiceKeys) =>
        \A j, k \in 1..Len(ServiceKeys) : svc[ServiceKeys[j]] = svc[ServiceKeys[k]]

\* C4: with no version tagged production load_model() raises, and the step
\* that raises leaves every entry of MODEL_CACHE as it was; a call of
\* load_model() that raises has assigned no entry of the cache.
C4_FailedLoadKeepsCache ==
    /\ [][\A c \in Callers :
            (lpc[c] = "call" /\ lpc'[c] # "call" /\ ProductionVersions = {})
               => (lpc'[c] = "raised" /\ MODEL_CACHE' = MODEL_CACHE)]_vars
    /\ [][\A c \in Callers :
            (lpc[c] # "raised" /\ lpc'[c] = "raised")
               => (lstep[c] = 0 /\ MODEL_CACHE' = MODEL_CACHE)]_vars

\* A refresh found no production version and raised while the cache held a
\* loaded model, which is still there in full.
C4_Witness ==
    /\ lpc["refresh"] = "raised"
    /\ lerr["refresh"] = "ValueError"
    /\ ProductionVersions = {}
    /\ MODEL_CACHE["model_version"] # None
    /\ \A i \in 1..Len(CacheKeys) : MODEL_CACHE[CacheKeys[i]] = MODEL_CACHE["model_version"]

\* C5: the watcher loop never terminates: whatever a tick finds, the thread
\* is still there, asleep until the next tick or handling one.
C5_WatcherNeverEnds == wpc # "dead"

C7_PromotedEventuallyCached ==
    \A v \in 1..MaxVersion :
        (proc = "serving" /\ ProductionVersions = {v})
           ~> \/ ProductionVersions # {v}
              \/ \A i \in 1..Len(CacheKeys) : MODEL_CACHE[CacheKeys[i]] = v

\* C8: a registry without production version at process start is no startup
\* failure: load_model() finding none does not end the lifespan startup.
C8_MissingModelIsNotFatal ==
    (lerr["lifespan"] = "ValueError" /\ loaded["lifespan"] = None) => proc # "failed"

\* The service holds a model and the user of the call is in its user map.
RerankPersonalized ==
    /\ rr.pc = "done"
    /\ svc["implicit_model"] # None /\ svc["dataset_map"] # None
    /\ rr.user_id \in DOMAIN artifacts.user_map

Count(seq, x) == Cardinality({i \in 1..Len(seq) : seq[i] = x})

OwnScore(cid) ==
    Dot(artifacts.item_factors[artifacts.item_map[cid] + 1],
        artifacts.user_factors[artifacts.user_map[rr.user_id] + 1])

\* C10: with a model cached and the user in its user map, the result lists
\* first the candidates of the item map by descending own score, then the
\* candidates absent from the item map in their original relative order.
C10_ScoredThenAbsent ==
    RerankPersonalized =>
        LET InMap(cid) == cid \in DOMAIN artifacts.item_map
            NotInMap(cid) == cid \notin DOMAIN artifacts.item_map
            present == SelectSeq(rr.candidate_ids, InMap)
            absent == SelectSeq(rr.candidate_ids, NotInMap)
            n == Len(present)
        IN /\ Len(rr.out) = Len(rr.candidate_ids)
           /\ \A i \in 1..n : InMap(rr.out[i])
           /\ \A x \in Items : Count(SubSeq(rr.out, 1, n), x) = Count(present, x)
           /\ \A i, j \in 1..n : i < j => OwnScore(rr.out[i]) >= OwnScore(rr.out[j])
           /\ SubSeq(rr.out, n + 1, Len(rr.out)) = absent

\* C11: when the service holds no model or no dataset map, or the user has
\* no entry in the user map, _rerank_with_implicit returns the candidate
\* list as it was given, and indexes no factor matrix.
C11_FallbackIsIdentity ==
    (rr.pc = "done" /\ ~RerankPersonalized)
        => (rr.out = rr.candidate_ids /\ rr.reads = {})

\* A service holding a model re-ranked for a user its user map lacks: two
\* candidates the item map has came back in the order given.
C11_Witness ==
    /\ rr.pc = "done"
    /\ svc["implicit_model"] # None /\ svc["dataset_map"] # None
    /\ rr.user_id \notin DOMAIN artifacts.user_map
    /\ Len(rr.candidate_ids) >= 2
    /\ \A i \in 1..Len(rr.candidate_ids) : rr.candidate_ids[i] \in DOMAIN artifacts.item_map
    /\ rr.out = rr.candidate_ids

\* The call of personalized_recommendations has returned.
PersonalizedDone == call.fn = "personalized" /\ call.pc = "done"

\* C12: for a user without feedback rows, and as well when the service
\* holds no model or the user map lacks the user, what
\* personalized_recommendations(user, limit) returns is a list
\* recommend_for_cold_start(user, limit) returns, from the cold-start path.
C12_NoHistoryIsColdStart ==
    (/\ PersonalizedDone
     /\ \/ feedbacks[call.user_id] = <<>>
        \/ svc["implicit_model"] = None \/ svc["dataset_map"] = None
        \/ call.user_id \notin DOMAIN artifacts.user_map)
        => /\ call.path = "cold_start"
           /\ call.out \in recommend_for_cold_start(call.user_id, call.limit)

\* A user without feedback whom the cached model knows, with stored
\* preferences, got a cold-start list.
C12_Witness ==
    /\ PersonalizedDone
    /\ feedbacks[call.user_id] = <<>>
    /\ svc["implicit_model"] # None
    /\ call.user_id \in DOMAIN artifacts.user_map
    /\ preferences[call.user_id] # {}
    /\ call.out # <<>>

C16_ColdStartByPopularity ==
    (call.fn = "cold_start" /\ call.pc = "done")
        => LET out == call.out
               prefs == preferences[call.user_id]
           IN /\ Len(out) <= call.limit
              /\ \A i, j \in 1..Len(out) :
                    i < j => movies[out[i]].popularity >= movies[out[j]].popularity
              /\ prefs = {} =>
                    /\ Len(out) = Min(call.limit, Cardinality(DOMAIN movies))
                    /\ \A m \in DOMAIN movies \ Range(out) : \A i \in 1..Len(out) :
                          movies[out[i]].popularity >= movies[m].popularity
              /\ prefs # {} =>
                    \A i \in 1..Len(out) : movies[out[i]].genres \cap prefs # {}

\* The highest similarity score the searches of the call gave for mid.
BestReceived(mid) ==
    LET all == Flatten(call.received)
    IN MaxOf({all[i].score : i \in {j \in 1..Len(all) : all[j].id = mid}})

\* The unwatched items the searches of the call returned.
RecentCandidates ==
    LET all == Flatten(call.received)
        fbs == feedbacks[call.user_id]
    IN {all[i].id : i \in 1..Len(all)} \ {fbs[i].movie_id : i \in 1..Len(fbs)}

\* C15: recommendations_based_on_recent_activity merges the results of the
\* queries of the user's most recent watched rows by the highest score an
\* item received, whatever its sign, drops the watched items, and returns
\* the `limit` best of the rest in descending order of that score; without
\* a watched row it returns the empty list.
C15_RecentByBestScore ==
    (call.fn = "recent" /\ call.pc = "done")
        => LET out == call.out
           IN /\ RecentWatched(call.user_id, call.last_n) = <<>> => out = <<>>
              /\ Len(out) = Min(call.limit, Cardinality(RecentCandidates))
              /\ \A i \in 1..Len(out) : out[i] \in RecentCandidates
              /\ \A i, j \in 1..Len(out) : i # j => out[i] # out[j]
              /\ \A i, j \in 1..Len(out) :
                    i < j => BestReceived(out[i]) >= BestReceived(out[j])
              /\ \A c \in RecentCandidates \ Range(out) : \A i \in 1..Len(out) :
                    BestReceived(out[i]) >= BestReceived(c)

\* C14: a call of search_recommendations that passes genres and/or a year
\* range returns only items released inside the range and carrying one of
\* the requested genres, with example titles or without.
C14_SearchRespectsFilters ==
    (/\ call.fn = "search" /\ call.pc = "done"
     /\ call.genres # {} \/ call.year_min # None \/ call.year_max # None)
        => \A i \in 1..Len(call.out) :
              LET m == movies[call.out[i]]
              IN /\ call.genres # {} => m.genres \cap call.genres # {}
                 /\ call.year_min # None => m.release_year >= call.year_min
                 /\ call.year_max # None => m.release_year <= call.year_max

\* A step of archive_old_versions or delete_model_versions.
CleanupStep == versions' # versions \/ archived' # archived

\* C17: a step of archive_old_versions(keep_last=n) or
\* delete_model_versions(keep_last=n) leaves the n highest-numbered versions
\* as they were, archives respectively deletes every other version, and
\* neither archives nor deletes a version that holds production.
C17_CleanupSparesProduction ==
    [][(CleanupStep /\ nextVersion' = nextVersion)
         => /\ \A v \in ProductionVersions :
                  /\ v \in versions'
                  /\ v \in archived' => v \in archived
            /\ \E n \in KeepLastValues :
                  /\ Newest(versions, n) \subseteq versions'
                  /\ archived' \cap Newest(versions, n) = archived \cap Newest(versions, n)
                  /\ \A v \in versions \ (Newest(versions, n) \cup ProductionVersions) :
                        v \notin versions' \/ v \in archived']_vars

\* C18: a training run that failed, at whatever step, has left the set of
\* production-tagged versions as it was when the run started.
C18_FailedRunKeepsProduction ==
    \A r \in Runs : tpc[r] = "raised" => ProductionVersions = prodBefore[r]

\* C19: when no write of the index is under way, the index holds a point
\* for every movie of the table and for no other id, built from the
\* movie's current text fields.
C19_IndexFollowsCatalog ==
    ix.pc = "none"
        => /\ DOMAIN index = DOMAIN movies
           /\ \A id \in DOMAIN movies \cap DOMAIN index : index[id].text = movies[id].text

\* C20: when a batch upsert has ended, by returning or by raising, every
\* record of the batch that the index accepts has been written.
C20_BatchSurvivesBadRecord ==
    ix.pc \in {"done", "raised"}
        => \A id \in (ix.batch \ ix.bad) \cap DOMAIN movies :
              id \in DOMAIN index /\ index[id].text = movies[id].text


\* C21: after _ensure_collection has returned, the collection exists with
\* vector size 768 and the cosine metric, whatever it found; a collection
\* found with another vector size was dropped with its points, and a
\* correctly configured collection found keeps its configuration and points.
C21_EnsureCollectionConfig ==
    ec.pc = "done"
        => /\ collection = CreatedCollection
           /\ (ec.found.exists /\ ec.found.size # VectorSize) => index = <<>>
           /\ ec.found = CreatedCollection => index = ec.points


\* C22: a call of search_similar that is given neither a query text nor a
\* vector raises and sends nothing to the store; every other call sends
\* exactly one query, whose filter holds one condition per filter entry and
\* no other: an any-of match for a list, a range with the given bounds for
\* a {gte, lte} object, an exact match for a scalar.
C22_SearchSimilarQuery ==
    (sq.fn = "search_similar" /\ sq.pc # "call")
        => IF sq.query \in {"None", ""} /\ sq.movie_vector = "None"
           THEN sq.pc = "raised" /\ sq.sent = <<>>
           ELSE /\ sq.pc = "done"
                /\ Len(sq.sent) = 1
                /\ LET must == sq.sent[1].query_filter.must
                       f == sq.filters.entries
                   IN /\ Len(must) = Cardinality(DOMAIN f)
                      /\ \A k \in DOMAIN f : \E i \in 1..Len(must) :
                            /\ must[i].key = k
                            /\ f[k].type = "list"
                                  => must[i].kind = "any" /\ must[i].any = f[k].any
                            /\ f[k].type = "dict"
                                  => /\ must[i].kind = "range"
                                     /\ must[i].gte = f[k].gte
                                     /\ must[i].lte = f[k].lte
                            /\ f[k].type = "scalar"
                                  => must[i].kind = "value" /\ must[i].value = f[k].value

\* C22 witness: a call with a vector and no query text, whose filters hold
\* a genre list and a range with a lower bound only, has sent its one query
\* and returned points.
C22_Witness ==
    /\ sq.fn = "search_similar" /\ sq.pc = "done"
    /\ sq.query = "None" /\ sq.movie_vector = "vector"
    /\ DOMAIN sq.filters.entries = {"genres", "release_year"}
    /\ sq.filters.entries["release_year"].type = "dict"
    /\ sq.filters.entries["release_year"].keys = {"gte"}
    /\ Len(sq.sent) = 1
    /\ Len(sq.out) > 0


\* The feedback rows that pass the rating/status filter: a row is skipped
\* exactly when it has no rating and its status is not "watched".
PassesFilter(fb) == fb.rating # None \/ fb.status = "watched"

\* C23: when the table has a row that passes the filter, the matrix built
\* for training has as many nonzero cells as rows pass the filter, and the
\* cell of each such row is 1 + alpha * rating, an unrated watched row
\* counting as rating 1.
C23_MatrixFromFilteredRows ==
    (prep.pc \in {"built", "fitted", "evaluated"}
        /\ \E i \in 1..Len(prep.feedbacks) : PassesFilter(prep.feedbacks[i]))
    => LET m == prep.interactions.entries
           passing == SelectSeq(prep.feedbacks, PassesFilter)
           byUser == prep.fn = "training_helper"
       IN /\ Len(m) = Len(passing)
          /\ \A i \in 1..Len(passing) : \E j \in 1..Len(m) :
                /\ (IF byUser THEN m[j].row ELSE m[j].col)
                       = prep.dataset_map.user_map[passing[i].user_id]
                /\ (IF byUser THEN m[j].col ELSE m[j].row)
                       = prep.dataset_map.item_map[passing[i].movie_id]
                /\ m[j].val = 1 + Alpha * (IF passing[i].rating # None
                                           THEN passing[i].rating ELSE 1)


\* C24: no model is fit on an empty interaction matrix: whenever no
\* feedback row passes the rating/status filter, training ends with an
\* error before model.fit.
C24_NoFitOnEmptyMatrix ==
    prep.pc \in {"fitted", "evaluated"}
        => /\ \E i \in 1..Len(prep.feedbacks) : PassesFilter(prep.feedbacks[i])
           /\ prep.interactions.entries # <<>>

\* C27: the dataset map built for training gives the dense indices
\* 0..n-1, in ascending id order, to exactly the users and exactly the
\* items of the feedback rows; both maps are injective, inv_item_map
\* inverts item_map, and the matrix has len(user_map) and len(item_map) as
\* its dimensions.
C27_DatasetMapOfFeedback ==
    prep.pc \in {"built", "fitted", "evaluated"}
        => LET fbs == prep.feedbacks
               user_map == prep.dataset_map.user_map
               item_map == prep.dataset_map.item_map
               inv_item_map == prep.dataset_map.inv_item_map
               Dense(m) == /\ Range(m) = 0..(Cardinality(DOMAIN m) - 1)
                           /\ \A x, y \in DOMAIN m : x < y => m[x] < m[y]
               shape == prep.interactions.shape
           IN /\ DOMAIN user_map = {fbs[i].user_id : i \in 1..Len(fbs)}
              /\ DOMAIN item_map = {fbs[i].movie_id : i \in 1..Len(fbs)}
              /\ Dense(user_map) /\ Dense(item_map)
              /\ DOMAIN inv_item_map = Range(item_map)
              /\ \A x \in DOMAIN item_map : inv_item_map[item_map[x]] = x
              /\ {shape[1], shape[2]} = {Cardinality(DOMAIN user_map), Cardinality(DOMAIN item_map)}
              /\ shape[IF prep.fn = "training_helper" THEN 1 ELSE 2] = Cardinality(DOMAIN user_map)

\* C28: evaluation takes exactly the users with at least 2 interactions and
\* holds out one interaction of each; it returns (0.0, 0.0) when there is
\* no such user, and otherwise two metrics between 0 and 1.
C28_EvaluationSample ==
    prep.pc = "evaluated"
        => LET m == prep.interactions.entries
               byUser == prep.fn = "training_helper"
               UserOf(e) == IF byUser THEN e.row ELSE e.col
               ItemOf(e) == IF byUser THEN e.col ELSE e.row
               items(u) == {ItemOf(m[i]) : i \in {j \in 1..Len(m) : UserOf(m[j]) = u}}
               eligible == {u \in Range(prep.dataset_map.user_map) : Cardinality(items(u)) >= 2}
           IN /\ DOMAIN prep.evaluated = eligible
              /\ \A u \in DOMAIN prep.evaluated :
                    /\ Cardinality(prep.evaluated[u].truth) = 1
                    /\ prep.evaluated[u].truth \subseteq items(u)
              /\ eligible = {} => prep.returned = <<0, 0>>
              /\ Len(prep.returned) = 2
              /\ \A i \in 1..Len(prep.returned) : prep.returned[i] \in 0..1000


\* C25: whatever the interleaving of the requests about one (user, movie)
\* pair, the table holds at most one row of the pair, and once every
\* request has been served that row carries the rating and status of the
\* request served last.
C25_OneRowPerPair ==
    /\ Cardinality(PairRows(1, 1)) <= 1
    /\ (\A r \in Requests : fbreq[r].pc = "done")
          => \E latest \in Requests :
                /\ \A r \in Requests : fbreq[r].done_at <= fbreq[latest].done_at
                /\ \A i \in PairRows(1, 1) :
                      /\ feedbacks[1][i].rating = fbreq[latest].rating
                      /\ feedbacks[1][i].status = fbreq[latest].status


\* C26: the query of a personalized call is built from the user's 10 most
\* recently updated feedback rows, all rows when there are fewer.
C26_QueryFromMostRecent ==
    (call.fn = "personalized" /\ call.pc = "done" /\ call.path = "personalized")
        => LET fbs == get_user_feedbacks(call.user_id)
           IN Range(call.query) = {fbs[i].movie_id : i \in 1..Min(10, Len(fbs))}


\* C29: however two overlapping training runs interleave, a run that tags
\* a version as production tags the version it registered itself, and
\* when no run is under way at most one version holds the production tag.
C29_OverlappingRuns ==
    /\ \A r \in Runs :
          tpc[r] \in {"untag", "promoted"} => tlocal[r].latest = tlocal[r].registered
    /\ (\A r \in Runs : tpc[r] \in {"idle", "promoted", "skipped", "raised"})
          => Cardinality(ProductionVersions) <= 1



\* The clock of Europe/Paris shows 04:00 at the instant t.
IsFourAM(rule, t) == datetime_now(rule, t) % Day = 4 * Hour

\* C30: the delay computed at any instant is more than 0 and at most 24
\* hours, the instant that lies this delay later is the first one after
\* the call at which the clock of Europe/Paris shows 04:00, and a call made
\* when the clock shows exactly 04:00 gives 24 hours.

C30_DelayToNextFourAM ==
    clock.pc \in {"sleeping", "woke"}
        => LET d == clock.sleep_secs
           IN /\ 0 < d /\ d <= Day
              /\ IsFourAM(clock.rule, clock.at + d)
              /\ \A t \in (clock.at + 1)..(clock.at + d - 1) : ~IsFourAM(clock.rule, t)
              /\ IsFourAM(clock.rule, clock.at) => d = Day

====
